---- MODULE Spec2Model ----
(***************************************************************************)
(* Pathfinding visualizer: the grid model and the five search strategies   *)
(* (Dijkstra, A*, Greedy Best-First, Bidirectional Swarm, BMSSP) run by    *)
(* the driver's runAlgorithm.  A node is the pair <<row, col>>; the grid   *)
(* maps every node to its NodeData record.                                 *)
(***************************************************************************)
EXTENDS Integers, Sequences, FiniteSets, TLC

\* Bounds of the model: largest grid explored.
MaxRows == 3
MaxCols == 5
MaxCells == 7

\* Bounds of the editor model (GRID_ROWS x GRID_COLS).
EditorMaxRows == 2
EditorMaxCols == 3
EditorMaxCells == 3

\* JavaScript's Infinity: larger than every finite distance, Infinity + 1 = Infinity.
Infinity == 1000

VARIABLES
  rows,                      \* GRID_ROWS  (grid.length)
  cols,                      \* GRID_COLS  (grid[0].length)
  grid,                      \* [node -> NodeData]
  startNode,                 \* the node with isStart
  finishNode,                \* the node with isFinish
  selectedAlgorithm,         \* the driver's selected strategy
  pc,                        \* "idle" | "running" | "done"
  openSet,                   \* frontier array of dijkstra / astar / greedyBfs
  visitedNodesInOrder,       \* result: exploration order
  nodesInShortestPathOrder,  \* result: path
  startOpenSet,              \* bidirectionalSwarm: start-side frontier
  finishOpenSet,             \* bidirectionalSwarm: finish-side frontier
  visitedByStart,            \* bidirectionalSwarm: Map id -> parent, start side
  visitedByFinish,           \* bidirectionalSwarm: Map id -> parent, finish side
  gScoreStart,               \* bidirectionalSwarm: Map id -> cost, start side
  gScoreFinish,              \* bidirectionalSwarm: Map id -> cost, finish side
  fScoreStart,               \* bidirectionalSwarm: Map id -> cost + heuristic
  fScoreFinish,
  k_param,                   \* bmssp: module-scoped parameter k
  t_param,                   \* bmssp: module-scoped parameter t
  pending,                   \* bmssp: writes the running bmsspRecursive has yet to make
  isVisualizing,             \* driver: a run or its animation is under way
  isMousePressed,            \* driver: interaction state
  draggingState,             \* driver: "start" | "finish" | "wall" | "null"
  animated,                  \* driver: animation timers that have fired
  newGrid,                   \* the grid generateRandomMaze returned, <<>> before a call
  iterations,                \* loop iterations (bmssp: writes) the current run has made
  shortestPathFound,         \* driver: isOptimal of the run, "unset" | "true" | "false"
  structureD,                \* a StructureD instance: [items, M, B]
  lastCall,                  \* the last call on structureD or elements and what it returned
  calls,                     \* bmssp: the calls the running bmsspRecursive makes, in order
  minHeap,                   \* a MinHeap instance: its elements, an array of {node, dist}
  history,                   \* driver: the history state, newest entry first
  pathfinder_history,        \* localStorage item 'pathfinder_history', <<>> when absent
  historyInClosure,          \* the history the callbacks of the current run hold
  timers                     \* setTimeout callbacks not yet run, in the order they were set

vars == <<rows, cols, grid, startNode, finishNode, selectedAlgorithm, pc,
          openSet, visitedNodesInOrder, nodesInShortestPathOrder,
          startOpenSet, finishOpenSet, visitedByStart, visitedByFinish,
          gScoreStart, gScoreFinish, fScoreStart, fScoreFinish,
          k_param, t_param, pending,
          isVisualizing, isMousePressed, draggingState, animated, newGrid, iterations,
          shortestPathFound, structureD, lastCall, calls,
          minHeap, history, pathfinder_history, historyInClosure, timers>>

null == <<-1, -1>>

AlgorithmType == {"dijkstra", "astar", "greedyBfs", "bidirectionalSwarm", "bmssp"}

----------------------------------------------------------------------------
\* Generic helpers (JavaScript array and number semantics)

Plus(a, b) == IF a = Infinity THEN Infinity ELSE a + b

Min(a, b) == IF a < b THEN a ELSE b

Abs(a) == IF a < 0 THEN -a ELSE a

Includes(s, x) == \E i \in 1..Len(s) : s[i] = x

\* A JavaScript Map is a function whose domain is the set of keys present.
EmptyMap == <<>>

MapHas(m, key) == key \in DOMAIN m

MapSet(m, key, value) ==
  [x \in (DOMAIN m) \cup {key} |-> IF x = key THEN value ELSE m[x]]

\* for (const x of s) acc = op(acc, x)
FoldLeft(op(_, _), acc0, s) ==
  LET RECURSIVE f(_)
      f(k) == IF k = 0 THEN acc0 ELSE op(f(k - 1), s[k])
  IN f(Len(s))

\* Array.prototype.sort with a comparator: stable, an element moves in front of
\* another only when the comparator says it is strictly smaller.
StableSort(s, less(_, _)) ==
  LET RECURSIVE ins(_, _)
      ins(sorted, x) ==
        IF sorted = <<>> THEN <<x>>
        ELSE IF less(x, Head(sorted)) THEN <<x>> \o sorted
        ELSE <<Head(sorted)>> \o ins(Tail(sorted), x)
  IN FoldLeft(ins, <<>>, s)

----------------------------------------------------------------------------
\* Grid model

Cells(r, c) == (0..(r - 1)) \X (0..(c - 1))

Nodes == Cells(rows, cols)

createNode(col, row, startPos, finishPos) ==
  [col |-> col, row |-> row,
   isStart |-> (row = startPos[1] /\ col = startPos[2]),
   isFinish |-> (row = finishPos[1] /\ col = finishPos[2]),
   distance |-> Infinity, totalDistance |-> Infinity,
   heuristicDistance |-> Infinity,
   isVisited |-> FALSE, isWall |-> FALSE, previousNode |-> null]

getInitialGrid(startPos, finishPos) ==
  [n \in Nodes |-> createNode(n[2], n[1], startPos, finishPos)]

\* The four in-grid neighbours in the order every strategy pushes them:
\* up, down, left, right.
gridNeighbors(node) ==
  LET row == node[1]
      col == node[2]
  IN (IF row > 0 THEN << <<row - 1, col>> >> ELSE <<>>) \o
     (IF row < rows - 1 THEN << <<row + 1, col>> >> ELSE <<>>) \o
     (IF col > 0 THEN << <<row, col - 1>> >> ELSE <<>>) \o
     (IF col < cols - 1 THEN << <<row, col + 1>> >> ELSE <<>>)

getManhattanDistance(nodeA, nodeB) ==
  Abs(nodeA[1] - nodeB[1]) + Abs(nodeA[2] - nodeB[2])

getUnvisitedNeighbors(g, node) ==
  SelectSeq(gridNeighbors(node), LAMBDA neighbor : ~g[neighbor].isVisited)

\* Mutant: the loop tests currentNode after unshifting it, so null is unshifted too.
getNodesInShortestPathOrder_doWhile(g, node) ==
  LET RECURSIVE walk(_, _)
      walk(currentNode, path) ==
        IF currentNode = null THEN <<null>> \o path
        ELSE walk(g[currentNode].previousNode, <<currentNode>> \o path)
  IN walk(node, <<>>)

\* Mutant: the walk pushes instead of unshifting, so the path comes out reversed.
getNodesInShortestPathOrder_push(g, node) ==
  LET RECURSIVE walk(_, _)
      walk(currentNode, path) ==
        IF currentNode = null THEN path
        ELSE walk(g[currentNode].previousNode, Append(path, currentNode))
  IN walk(node, <<>>)

\* Walk previousNode from the finish node, unshifting each node.
getNodesInShortestPathOrder(g, node) ==
  LET RECURSIVE walk(_, _)
      walk(currentNode, path) ==
        IF currentNode = null THEN path
        ELSE walk(g[currentNode].previousNode, <<currentNode>> \o path)
  IN walk(node, <<>>)

\* The search state a strategy works on, as one record.
SearchState ==
  [grid |-> grid, openSet |-> openSet,
   visitedNodesInOrder |-> visitedNodesInOrder,
   nodesInShortestPathOrder |-> nodesInShortestPathOrder, pc |-> pc,
   startOpenSet |-> startOpenSet, finishOpenSet |-> finishOpenSet,
   visitedByStart |-> visitedByStart, visitedByFinish |-> visitedByFinish,
   gScoreStart |-> gScoreStart, gScoreFinish |-> gScoreFinish,
   fScoreStart |-> fScoreStart, fScoreFinish |-> fScoreFinish,
   k_param |-> k_param, t_param |-> t_param, pending |-> pending, calls |-> calls]

Commit(s) ==
  /\ grid' = s.grid
  /\ openSet' = s.openSet
  /\ visitedNodesInOrder' = s.visitedNodesInOrder
  /\ nodesInShortestPathOrder' = s.nodesInShortestPathOrder
  /\ pc' = s.pc
  /\ startOpenSet' = s.startOpenSet
  /\ finishOpenSet' = s.finishOpenSet
  /\ visitedByStart' = s.visitedByStart
  /\ visitedByFinish' = s.visitedByFinish
  /\ gScoreStart' = s.gScoreStart
  /\ gScoreFinish' = s.gScoreFinish
  /\ fScoreStart' = s.fScoreStart
  /\ fScoreFinish' = s.fScoreFinish
  /\ k_param' = s.k_param
  /\ t_param' = s.t_param
  /\ pending' = s.pending
  /\ calls' = s.calls

Return(s, path) == [s EXCEPT !.nodesInShortestPathOrder = path, !.pc = "done"]

----------------------------------------------------------------------------
\* Dijkstra

\* Mutant: the comparator's operands are swapped (farthest node first).
sortNodesByDistance_descending(g, unvisitedNodes) ==
  StableSort(unvisitedNodes, LAMBDA nodeA, nodeB : g[nodeB].distance - g[nodeA].distance < 0)

sortNodesByDistance(g, unvisitedNodes) ==
  StableSort(unvisitedNodes, LAMBDA nodeA, nodeB : g[nodeA].distance - g[nodeB].distance < 0)

\* Mutant: the relaxation check is <= instead of <.
dijkstra_updateUnvisitedNeighbors_orEqual(s, node) ==
  FoldLeft(LAMBDA acc, neighbor :
             LET newDistance == Plus(acc.grid[node].distance, 1)
             IN IF newDistance <= acc.grid[neighbor].distance
                THEN [acc EXCEPT !.grid[neighbor].distance = newDistance,
                                 !.grid[neighbor].previousNode = node,
                                 !.openSet = IF Includes(@, neighbor) THEN @
                                             ELSE Append(@, neighbor)]
                ELSE acc,
           s, getUnvisitedNeighbors(s.grid, node))

\* Mutant: an equal distance relaxes too, and the neighbour is pushed without
\* the openSet.includes test.
dijkstra_updateUnvisitedNeighbors_pushAlways(s, node) ==
  FoldLeft(LAMBDA acc, neighbor :
             LET newDistance == Plus(acc.grid[node].distance, 1)
             IN IF newDistance <= acc.grid[neighbor].distance
                THEN [acc EXCEPT !.grid[neighbor].distance = newDistance,
                                 !.grid[neighbor].previousNode = node,
                                 !.openSet = Append(@, neighbor)]
                ELSE acc,
           s, getUnvisitedNeighbors(s.grid, node))

dijkstra_updateUnvisitedNeighbors(s, node) ==
  FoldLeft(LAMBDA acc, neighbor :
             LET newDistance == Plus(acc.grid[node].distance, 1)
             IN IF newDistance < acc.grid[neighbor].distance
                THEN [acc EXCEPT !.grid[neighbor].distance = newDistance,
                                 !.grid[neighbor].previousNode = node,
                                 !.openSet = IF Includes(@, neighbor) THEN @
                                             ELSE Append(@, neighbor)]
                ELSE acc,
           s, getUnvisitedNeighbors(s.grid, node))

\* Statements before the while loop.
dijkstraEnter(s) ==
  [s EXCEPT !.grid[startNode].distance = 0, !.openSet = <<startNode>>,
            !.visitedNodesInOrder = <<>>, !.pc = "running"]

\* Mutant: the finish test comes before the node is recorded as visited.
dijkstraIteration_finishFirst(s) ==
  IF s.openSet = <<>> THEN Return(s, <<>>)
  ELSE
    LET sorted == sortNodesByDistance(s.grid, s.openSet)
        closestNode == Head(sorted)
        shifted == [s EXCEPT !.openSet = Tail(sorted)]
    IN IF shifted.grid[closestNode].isWall THEN shifted
       ELSE IF shifted.grid[closestNode].distance = Infinity THEN Return(shifted, <<>>)
       ELSE IF shifted.grid[closestNode].isVisited THEN shifted
       ELSE IF closestNode = finishNode
       THEN Return(shifted, getNodesInShortestPathOrder(shifted.grid, finishNode))
       ELSE dijkstra_updateUnvisitedNeighbors(
              [shifted EXCEPT !.grid[closestNode].isVisited = TRUE,
                              !.visitedNodesInOrder = Append(@, closestNode)],
              closestNode)

\* One evaluation of the while condition and, if it holds, one loop body.
dijkstraIteration(s) ==
  IF s.openSet = <<>> THEN Return(s, <<>>)
  ELSE
    LET sorted == sortNodesByDistance(s.grid, s.openSet)
        closestNode == Head(sorted)
        shifted == [s EXCEPT !.openSet = Tail(sorted)]
    IN IF shifted.grid[closestNode].isWall THEN shifted
       ELSE IF shifted.grid[closestNode].distance = Infinity THEN Return(shifted, <<>>)
       ELSE IF shifted.grid[closestNode].isVisited THEN shifted
       ELSE
         LET closed == [shifted EXCEPT !.grid[closestNode].isVisited = TRUE,
                                       !.visitedNodesInOrder = Append(@, closestNode)]
         IN IF closestNode = finishNode
            THEN Return(closed, getNodesInShortestPathOrder(closed.grid, finishNode))
            ELSE dijkstra_updateUnvisitedNeighbors(closed, closestNode)

----------------------------------------------------------------------------
\* A*

\* Mutant: the comparator's operands are swapped (largest f-score first).
sortNodesByTotalDistance_descending(g, nodes) ==
  StableSort(nodes, LAMBDA nodeA, nodeB :
    IF g[nodeA].totalDistance = g[nodeB].totalDistance
    THEN g[nodeB].heuristicDistance - g[nodeA].heuristicDistance < 0
    ELSE g[nodeB].totalDistance - g[nodeA].totalDistance < 0)

\* Mutant: equal total distances are left in array order (no tie-break).
sortNodesByTotalDistance_noTieBreak(g, nodes) ==
  StableSort(nodes, LAMBDA nodeA, nodeB :
    g[nodeA].totalDistance - g[nodeB].totalDistance < 0)

sortNodesByTotalDistance(g, nodes) ==
  StableSort(nodes, LAMBDA nodeA, nodeB :
    IF g[nodeA].totalDistance = g[nodeB].totalDistance
    THEN g[nodeA].heuristicDistance - g[nodeB].heuristicDistance < 0
    ELSE g[nodeA].totalDistance - g[nodeB].totalDistance < 0)

astar_updateUnvisitedNeighbors(s, node) ==
  FoldLeft(LAMBDA acc, neighbor :
             LET newDistance == Plus(acc.grid[node].distance, 1)
                 h == getManhattanDistance(neighbor, finishNode)
             IN IF newDistance < acc.grid[neighbor].distance
                THEN [acc EXCEPT !.grid[neighbor].distance = newDistance,
                                 !.grid[neighbor].heuristicDistance = h,
                                 !.grid[neighbor].totalDistance = Plus(newDistance, h),
                                 !.grid[neighbor].previousNode = node,
                                 !.openSet = IF Includes(@, neighbor) THEN @
                                             ELSE Append(@, neighbor)]
                ELSE acc,
           s, getUnvisitedNeighbors(s.grid, node))

astarEnter(s) ==
  LET h == getManhattanDistance(startNode, finishNode)
  IN [s EXCEPT !.grid[startNode].distance = 0,
               !.grid[startNode].heuristicDistance = h,
               !.grid[startNode].totalDistance = 0 + h,
               !.openSet = <<startNode>>,
               !.visitedNodesInOrder = <<>>, !.pc = "running"]

\* Mutant: a popped wall is not skipped.
astarIteration_noWallSkip(s) ==
  IF s.openSet = <<>> THEN Return(s, <<>>)
  ELSE
    LET sorted == sortNodesByTotalDistance(s.grid, s.openSet)
        closestNode == Head(sorted)
        shifted == [s EXCEPT !.openSet = Tail(sorted)]
    IN IF shifted.grid[closestNode].isVisited THEN shifted
       ELSE
         LET closed == [shifted EXCEPT !.grid[closestNode].isVisited = TRUE,
                                       !.visitedNodesInOrder = Append(@, closestNode)]
         IN IF closestNode = finishNode
            THEN Return(closed, getNodesInShortestPathOrder(closed.grid, finishNode))
            ELSE astar_updateUnvisitedNeighbors(closed, closestNode)

\* Mutant: a wall at the head of the open set is inspected but not removed.
astarIteration_keepsWall(s) ==
  IF s.openSet = <<>> THEN Return(s, <<>>)
  ELSE
    LET sorted == sortNodesByTotalDistance(s.grid, s.openSet)
        closestNode == Head(sorted)
        shifted == [s EXCEPT !.openSet = Tail(sorted)]
    IN IF shifted.grid[closestNode].isWall THEN [s EXCEPT !.openSet = sorted]
       ELSE IF shifted.grid[closestNode].isVisited THEN shifted
       ELSE
         LET closed == [shifted EXCEPT !.grid[closestNode].isVisited = TRUE,
                                       !.visitedNodesInOrder = Append(@, closestNode)]
         IN IF closestNode = finishNode
            THEN Return(closed, getNodesInShortestPathOrder(closed.grid, finishNode))
            ELSE astar_updateUnvisitedNeighbors(closed, closestNode)

astarIteration(s) ==
  IF s.openSet = <<>> THEN Return(s, <<>>)
  ELSE
    LET sorted == sortNodesByTotalDistance(s.grid, s.openSet)
        closestNode == Head(sorted)
        shifted == [s EXCEPT !.openSet = Tail(sorted)]
    IN IF shifted.grid[closestNode].isWall THEN shifted
       ELSE IF shifted.grid[closestNode].isVisited THEN shifted
       ELSE
         LET closed == [shifted EXCEPT !.grid[closestNode].isVisited = TRUE,
                                       !.visitedNodesInOrder = Append(@, closestNode)]
         IN IF closestNode = finishNode
            THEN Return(closed, getNodesInShortestPathOrder(closed.grid, finishNode))
            ELSE astar_updateUnvisitedNeighbors(closed, closestNode)

----------------------------------------------------------------------------
\* Greedy Best-First

sortNodesByHeuristic(g, nodes) ==
  StableSort(nodes, LAMBDA nodeA, nodeB :
    g[nodeA].heuristicDistance - g[nodeB].heuristicDistance < 0)

\* Mutant: every unvisited neighbour is assigned, not only the unreached ones.
greedy_updateUnvisitedNeighbors_always(s, node) ==
  FoldLeft(LAMBDA acc, neighbor :
             [acc EXCEPT !.grid[neighbor].distance = Plus(acc.grid[node].distance, 1),
                         !.grid[neighbor].heuristicDistance =
                            getManhattanDistance(neighbor, finishNode),
                         !.grid[neighbor].previousNode = node,
                         !.openSet = Append(@, neighbor)],
           s, getUnvisitedNeighbors(s.grid, node))

greedy_updateUnvisitedNeighbors(s, node) ==
  FoldLeft(LAMBDA acc, neighbor :
             IF acc.grid[neighbor].distance = Infinity
             THEN [acc EXCEPT !.grid[neighbor].distance = Plus(acc.grid[node].distance, 1),
                              !.grid[neighbor].heuristicDistance =
                                 getManhattanDistance(neighbor, finishNode),
                              !.grid[neighbor].previousNode = node,
                              !.openSet = Append(@, neighbor)]
             ELSE acc,
           s, getUnvisitedNeighbors(s.grid, node))

greedyBfsEnter(s) ==
  [s EXCEPT !.grid[startNode].distance = 0,
            !.grid[startNode].heuristicDistance =
               getManhattanDistance(startNode, finishNode),
            !.openSet = <<startNode>>,
            !.visitedNodesInOrder = <<>>, !.pc = "running"]

\* greedyBfsIteration without the wall test.
greedyBfsIteration_noWallSkip(s) ==
  IF s.openSet = <<>> THEN Return(s, <<>>)
  ELSE
    LET sorted == sortNodesByHeuristic(s.grid, s.openSet)
        closestNode == Head(sorted)
        shifted == [s EXCEPT !.openSet = Tail(sorted)]
    IN IF shifted.grid[closestNode].isVisited THEN shifted
       ELSE
         LET closed == [shifted EXCEPT !.grid[closestNode].isVisited = TRUE,
                                       !.visitedNodesInOrder = Append(@, closestNode)]
         IN IF closestNode = finishNode
            THEN Return(closed, getNodesInShortestPathOrder(closed.grid, finishNode))
            ELSE greedy_updateUnvisitedNeighbors(closed, closestNode)

greedyBfsIteration(s) ==
  IF s.openSet = <<>> THEN Return(s, <<>>)
  ELSE
    LET sorted == sortNodesByHeuristic(s.grid, s.openSet)
        closestNode == Head(sorted)
        shifted == [s EXCEPT !.openSet = Tail(sorted)]
    IN IF shifted.grid[closestNode].isWall THEN shifted
       ELSE IF shifted.grid[closestNode].isVisited THEN shifted
       ELSE
         LET closed == [shifted EXCEPT !.grid[closestNode].isVisited = TRUE,
                                       !.visitedNodesInOrder = Append(@, closestNode)]
         IN IF closestNode = finishNode
            THEN Return(closed, getNodesInShortestPathOrder(closed.grid, finishNode))
            ELSE greedy_updateUnvisitedNeighbors(closed, closestNode)

----------------------------------------------------------------------------
\* Bidirectional Swarm

\* `${node.row}-${node.col}`
getNodeId(node) == <<node[1], "-", node[2]>>

\* gScoreMap.get(id) ?? Infinity
ScoreOrInfinity(m, node) ==
  IF MapHas(m, getNodeId(node)) THEN m[getNodeId(node)] ELSE Infinity

\* Map.get(id) of a parent map; undefined is null
ParentOrNull(m, node) ==
  IF node # null /\ MapHas(m, getNodeId(node)) THEN m[getNodeId(node)] ELSE null

sortNodes(nodes, fScoreMap) ==
  StableSort(nodes, LAMBDA a, b :
    ScoreOrInfinity(fScoreMap, a) - ScoreOrInfinity(fScoreMap, b) < 0)

\* side = [gScoreMap, fScoreMap, visitedMap, openSet]
updateNeighbor(g, neighbor, current, side, targetNode) ==
  IF g[neighbor].isWall THEN side
  ELSE
    LET tentativeG == Plus(ScoreOrInfinity(side.gScoreMap, current), 1)
        neighborId == getNodeId(neighbor)
        h == getManhattanDistance(neighbor, targetNode)
    IN IF tentativeG < ScoreOrInfinity(side.gScoreMap, neighbor)
       THEN [visitedMap |-> MapSet(side.visitedMap, neighborId, current),
             gScoreMap |-> MapSet(side.gScoreMap, neighborId, tentativeG),
             fScoreMap |-> MapSet(side.fScoreMap, neighborId, Plus(tentativeG, h)),
             openSet |-> IF Includes(side.openSet, neighbor) THEN side.openSet
                         ELSE Append(side.openSet, neighbor)]
       ELSE side

reconstructBidirectionalPathRevisited(meetingNode, startParents, finishParents) ==
  LET RECURSIVE back(_, _)
      back(curr, path) ==
        IF curr = startNode THEN path
        ELSE LET parent == ParentOrNull(startParents, curr)
             IN IF parent = null THEN <<curr>> \o path
                ELSE back(parent, <<curr>> \o path)
      RECURSIVE forward(_, _)
      forward(curr, path) ==
        IF curr # null /\ curr # finishNode
        THEN forward(ParentOrNull(finishParents, curr), Append(path, curr))
        ELSE IF curr = finishNode THEN Append(path, finishNode)
        ELSE path
  IN forward(ParentOrNull(finishParents, meetingNode),
             <<startNode>> \o back(meetingNode, <<>>))

StartSide(s) ==
  [gScoreMap |-> s.gScoreStart, fScoreMap |-> s.fScoreStart,
   visitedMap |-> s.visitedByStart, openSet |-> s.startOpenSet]

FinishSide(s) ==
  [gScoreMap |-> s.gScoreFinish, fScoreMap |-> s.fScoreFinish,
   visitedMap |-> s.visitedByFinish, openSet |-> s.finishOpenSet]

WithStartSide(s, side) ==
  [s EXCEPT !.gScoreStart = side.gScoreMap, !.fScoreStart = side.fScoreMap,
            !.visitedByStart = side.visitedMap, !.startOpenSet = side.openSet]

\* Mutant: both sides share one cost map, written by the finish side.
WithFinishSide_sharedCosts(s, side) ==
  [s EXCEPT !.gScoreFinish = side.gScoreMap, !.fScoreFinish = side.fScoreMap,
            !.visitedByFinish = side.visitedMap, !.finishOpenSet = side.openSet,
            !.gScoreStart = side.gScoreMap]

WithFinishSide(s, side) ==
  [s EXCEPT !.gScoreFinish = side.gScoreMap, !.fScoreFinish = side.fScoreMap,
            !.visitedByFinish = side.visitedMap, !.finishOpenSet = side.openSet]

\* Visualizer tracking: mark the popped node once.
swarmTrack(s, current) ==
  IF ~s.grid[current].isVisited
  THEN [s EXCEPT !.grid[current].isVisited = TRUE,
                 !.visitedNodesInOrder = Append(@, current)]
  ELSE s

swarmMeet(s, meetingNode) ==
  Return(s, reconstructBidirectionalPathRevisited(meetingNode, s.visitedByStart,
                                                  s.visitedByFinish))

\* --- Expand Finish Side ---
swarmExpandFinish(s) ==
  LET sorted == sortNodes(s.finishOpenSet, s.fScoreFinish)
      currentFinish == Head(sorted)
      shifted == [s EXCEPT !.finishOpenSet = Tail(sorted)]
  IN IF shifted.grid[currentFinish].isWall THEN shifted
     ELSE
       LET tracked == swarmTrack(shifted, currentFinish)
       IN IF MapHas(tracked.gScoreStart, getNodeId(currentFinish))
          THEN swarmMeet(tracked, currentFinish)
          ELSE WithFinishSide(tracked,
                 FoldLeft(LAMBDA side, neighbor :
                            updateNeighbor(tracked.grid, neighbor, currentFinish, side, startNode),
                          FinishSide(tracked), gridNeighbors(currentFinish)))

\* --- Expand Start Side ---
swarmStartSide(s) ==
  LET sorted == sortNodes(s.startOpenSet, s.fScoreStart)
      currentStart == Head(sorted)
      shifted == [s EXCEPT !.startOpenSet = Tail(sorted)]
  IN IF shifted.grid[currentStart].isWall THEN shifted
     ELSE
       LET tracked == swarmTrack(shifted, currentStart)
       IN IF MapHas(tracked.gScoreFinish, getNodeId(currentStart))
          THEN swarmMeet(tracked, currentStart)
          ELSE WithStartSide(tracked,
                 FoldLeft(LAMBDA side, neighbor :
                            updateNeighbor(tracked.grid, neighbor, currentStart, side, finishNode),
                          StartSide(tracked), gridNeighbors(currentStart)))

\* The finish side is expanded unless the start side returned.
swarmFinishSide(a) ==
  IF a.pc = "done" THEN a ELSE swarmExpandFinish(a)

\* One pass of the loop body: start side first, then finish side.
swarmExpandStart(s) ==
  swarmFinishSide(swarmStartSide(s))

bidirectionalSwarmEnter(s) ==
  [s EXCEPT !.visitedNodesInOrder = <<>>,
            !.startOpenSet = <<startNode>>,
            !.finishOpenSet = <<finishNode>>,
            !.visitedByStart = MapSet(EmptyMap, getNodeId(startNode), startNode),
            !.visitedByFinish = MapSet(EmptyMap, getNodeId(finishNode), finishNode),
            !.gScoreStart = MapSet(EmptyMap, getNodeId(startNode), 0),
            !.gScoreFinish = MapSet(EmptyMap, getNodeId(finishNode), 0),
            !.fScoreStart = MapSet(EmptyMap, getNodeId(startNode),
                                   getManhattanDistance(startNode, finishNode)),
            !.fScoreFinish = MapSet(EmptyMap, getNodeId(finishNode),
                                    getManhattanDistance(finishNode, startNode)),
            !.pc = "running"]

bidirectionalSwarmIteration(s) ==
  IF s.startOpenSet # <<>> /\ s.finishOpenSet # <<>>
  THEN swarmExpandStart(s)
  ELSE Return(s, <<>>)

----------------------------------------------------------------------------
\* BMSSP: data structures

\* JavaScript arrays are 0-based.
At(a, i) == a[i + 1]

Put(a, i, x) == [a EXCEPT ![i + 1] = x]

\* new Set(...) / Set.add: insertion-ordered, no duplicates
SetAdd(s, x) == IF Includes(s, x) THEN s ELSE Append(s, x)

NewSet(s) == FoldLeft(SetAdd, <<>>, s)

\* findIndex: 0-based index of the first match, -1 if none
FindIndex(a, Test(_)) ==
  IF \E i \in 1..Len(a) : Test(a[i])
  THEN (CHOOSE i \in 1..Len(a) : Test(a[i]) /\ \A j \in 1..(i - 1) : ~Test(a[j])) - 1
  ELSE -1

\* splice(i, 1) and splice(i, 0, x)
RemoveAt(a, i) == SubSeq(a, 1, i) \o SubSeq(a, i + 2, Len(a))

InsertAt(a, i, x) == SubSeq(a, 1, i) \o <<x>> \o SubSeq(a, i + 1, Len(a))

\* MinHeap: elements is an array of {node, dist}
MinHeap_bubbleUp(elements, n0) ==
  LET element == At(elements, n0)
      RECURSIVE loop(_, _)
      loop(e, n) ==
        IF n > 0
        THEN LET parentIdx == ((n + 1) \div 2) - 1
                 parent == At(e, parentIdx)
             IN IF element.dist >= parent.dist THEN e
                ELSE loop(Put(Put(e, parentIdx, element), n, parent), parentIdx)
        ELSE e
  IN loop(elements, n0)

MinHeap_bubbleDown(elements, n0) ==
  LET length == Len(elements)
      element == At(elements, n0)
      RECURSIVE loop(_, _)
      loop(e, n) ==
        LET child2N == (n + 1) * 2
            child1N == child2N - 1
            swap1 == IF child1N < length /\ At(e, child1N).dist < element.dist
                     THEN child1N ELSE -1
            swap == IF child2N < length /\
                       At(e, child2N).dist <
                         (IF swap1 = -1 THEN element.dist ELSE At(e, child1N).dist)
                    THEN child2N ELSE swap1
        IN IF swap = -1 THEN e
           ELSE loop(Put(Put(e, n, At(e, swap)), swap, element), swap)
  IN loop(elements, n0)

MinHeap_push(elements, node, dist) ==
  MinHeap_bubbleUp(Append(elements, [node |-> node, dist |-> dist]), Len(elements))

\* Mutant: pop takes the last element of the array instead of the root.
MinHeap_pop_last(elements) ==
  [min |-> elements[Len(elements)],
   elements |-> SubSeq(elements, 1, Len(elements) - 1)]

\* pop on a non-empty heap: the minimum and the remaining elements
MinHeap_pop(elements) ==
  LET min == At(elements, 0)
      end == elements[Len(elements)]
      popped == SubSeq(elements, 1, Len(elements) - 1)
  IN [min |-> min,
      elements |-> IF Len(popped) > 0
                   THEN MinHeap_bubbleDown(Put(popped, 0, end), 0)
                   ELSE popped]

MinHeap_contains(elements, node) == \E i \in 1..Len(elements) : elements[i].node = node

\* decreaseKey that writes the new dist whatever the old one is.
MinHeap_decreaseKey_anyDist(elements, node, dist) ==
  LET idx == FindIndex(elements, LAMBDA e : e.node = node)
  IN IF idx # -1
     THEN MinHeap_bubbleUp(Put(elements, idx, [node |-> node, dist |-> dist]), idx)
     ELSE elements

MinHeap_decreaseKey(elements, node, dist) ==
  LET idx == FindIndex(elements, LAMBDA e : e.node = node)
  IN IF idx # -1 /\ dist < At(elements, idx).dist
     THEN MinHeap_bubbleUp(Put(elements, idx, [node |-> node, dist |-> dist]), idx)
     ELSE elements

\* StructureD: [items, M, B], items an array of {node, val}
\* A new instance, before initialize.
StructureD_new == [items |-> <<>>, M |-> 0, B |-> Infinity]

\* No call made yet on the instance.
NoCall ==
  [op |-> "none", node |-> 0, val |-> 0, items |-> <<>>, Bi |-> 0, Si |-> <<>>,
   before |-> <<>>]

StructureD_initialize(M, B) == [items |-> <<>>, M |-> M, B |-> B]

\* Mutant: an entry of the node is replaced whatever its value.
StructureD_insert_replace(D, node, val) ==
  LET existingIdx == FindIndex(D.items, LAMBDA i : i.node = node)
      items == IF existingIdx # -1 THEN RemoveAt(D.items, existingIdx) ELSE D.items
      RECURSIVE search(_, _)
      search(low, high) ==
        IF low < high
        THEN LET mid == (low + high) \div 2
             IN IF At(items, mid).val < val THEN search(mid + 1, high)
                ELSE search(low, mid)
        ELSE low
  IN [D EXCEPT !.items = InsertAt(items, search(0, Len(items)),
                                  [node |-> node, val |-> val])]

StructureD_insert(D, node, val) ==
  LET existingIdx == FindIndex(D.items, LAMBDA i : i.node = node)
      keep == existingIdx # -1 /\ ~(At(D.items, existingIdx).val > val)
      items == IF existingIdx # -1 THEN RemoveAt(D.items, existingIdx) ELSE D.items
      RECURSIVE search(_, _)
      search(low, high) ==
        IF low < high
        THEN LET mid == (low + high) \div 2
             IN IF At(items, mid).val < val THEN search(mid + 1, high)
                ELSE search(low, mid)
        ELSE low
  IN IF keep THEN D
     ELSE [D EXCEPT !.items = InsertAt(items, search(0, Len(items)),
                                       [node |-> node, val |-> val])]

\* Mutant: the bound returned is always the outer bound B.
StructureD_pull_outerBound(D) ==
  IF Len(D.items) = 0 THEN [Bi |-> D.B, Si |-> <<>>, D |-> D]
  ELSE
    LET count == Min(Len(D.items), D.M)
        subset == SubSeq(D.items, 1, count)
        rest == SubSeq(D.items, count + 1, Len(D.items))
    IN [Bi |-> D.B,
        Si |-> [i \in 1..Len(subset) |-> subset[i].node],
        D |-> [D EXCEPT !.items = rest]]

StructureD_pull(D) ==
  IF Len(D.items) = 0 THEN [Bi |-> D.B, Si |-> <<>>, D |-> D]
  ELSE
    LET count == Min(Len(D.items), D.M)
        subset == SubSeq(D.items, 1, count)
        rest == SubSeq(D.items, count + 1, Len(D.items))
    IN [Bi |-> IF Len(rest) = 0 THEN D.B ELSE At(rest, 0).val,
        Si |-> [i \in 1..Len(subset) |-> subset[i].node],
        D |-> [D EXCEPT !.items = rest]]

\* Mutant: the batch is dropped instead of inserted.
StructureD_batchPrepend_dropped(D, items) == D

StructureD_batchPrepend(D, items) ==
  FoldLeft(LAMBDA acc, item : StructureD_insert(acc, item.node, item.val), D, items)

StructureD_isEmpty(D) == Len(D.items) = 0

----------------------------------------------------------------------------
\* BMSSP: the algorithm.  c is the execution context the three procedures
\* share: [grid, visitedNodesInOrder, k_param, t_param, log, calls].  Every
\* write to a node and every push to visitedNodesInOrder is one event,
\* appended to c.log in program order.  c.calls keeps, in program order, one
\* record per return of baseCase and of bmsspRecursive and one per call of
\* D.batchPrepend: the arguments, the result, and the distances the nodes
\* of the result carry at that moment.

bmssp_getNeighbors(g, node) ==
  SelectSeq(gridNeighbors(node), LAMBDA n : ~g[n].isWall)

\* The effect of one event on the grid and the trace.
ApplyEvent(g, trace, ev) ==
  [grid |-> [g EXCEPT ![ev.node].distance = ev.distance,
                      ![ev.node].previousNode = ev.previousNode,
                      ![ev.node].isVisited = (@ \/ ev.kind = "close")],
   visitedNodesInOrder |-> IF ev.push THEN Append(trace, ev.node) ELSE trace]

Do(c, ev) ==
  LET r == ApplyEvent(c.grid, c.visitedNodesInOrder, ev)
  IN [c EXCEPT !.grid = r.grid, !.visitedNodesInOrder = r.visitedNodesInOrder,
               !.log = Append(@, ev)]

\* Mutant: the relaxed node is recorded as its own predecessor.
Relax_selfParent(c, where, u, v, push) ==
  Do(c, [kind |-> "relax", where |-> where, node |-> v,
         distance |-> Plus(c.grid[u].distance, 1), previousNode |-> v, push |-> push])

\* v.distance = u.distance + weight; v.previousNode = u; optionally push v
Relax(c, where, u, v, push) ==
  Do(c, [kind |-> "relax", where |-> where, node |-> v,
         distance |-> Plus(c.grid[u].distance, 1), previousNode |-> u, push |-> push])

\* Mutant: the node is pushed on visitedNodesInOrder but not marked isVisited.
Close_pushOnly(c, where, x) ==
  Do(c, [kind |-> "relax", where |-> where, node |-> x,
         distance |-> c.grid[x].distance,
         previousNode |-> c.grid[x].previousNode, push |-> TRUE])

\* if (!x.isVisited) { x.isVisited = true; visitedNodesInOrder.push(x) }
Close(c, where, x) ==
  IF ~c.grid[x].isVisited
  THEN Do(c, [kind |-> "close", where |-> where, node |-> x,
              distance |-> c.grid[x].distance,
              previousNode |-> c.grid[x].previousNode, push |-> TRUE])
  ELSE c

NoRecord ==
  [kind |-> "none", l |-> 0, B |-> 0, S |-> <<>>, boundary |-> 0,
   U |-> <<>>, dist |-> <<>>, U0 |-> <<>>, dist0 |-> <<>>, closed |-> 0,
   list |-> <<>>, items |-> <<>>, Bi |-> 0, B_prime_i |-> 0]

Record(c, call) == [c EXCEPT !.calls = Append(@, call)]

\* node.distance of every node of a result, in the result's order
Distances(c, nodes) == [i \in 1..Len(nodes) |-> c.grid[nodes[i]].distance]

\* How many times isVisited was set since the log had `from` events.
ClosedSince(c, from) ==
  Cardinality({i \in (from + 1)..Len(c.log) : c.log[i].kind = "close"})

\* Algorithm 1: Finding Pivots

\* if (v.distance < B) W_curr.add(v), after the edge has been relaxed
findPivots_collect(c, W_curr, B, v) ==
  [c |-> c, W_curr |-> IF c.grid[v].distance < B THEN SetAdd(W_curr, v) ELSE W_curr]

\* The relaxation check of one edge u -> v; acc = [c, W_curr]
findPivots_relax(acc, B, u, v) ==
  IF Plus(acc.c.grid[u].distance, 1) <= acc.c.grid[v].distance
  THEN findPivots_collect(Relax(acc.c, "findPivots", u, v, ~acc.c.grid[v].isVisited),
                          acc.W_curr, B, v)
  ELSE acc

\* for (const u of W_prev) for (const v of neighbors) ...
findPivots_scan(c, B, W_prev) ==
  FoldLeft(LAMBDA accU, u :
             FoldLeft(LAMBDA acc, v : findPivots_relax(acc, B, u, v),
                      accU, bmssp_getNeighbors(accU.c.grid, u)),
           [c |-> c, W_curr |-> <<>>], W_prev)

\* for (const node of W_curr) if (!W.has(node)) { W.add(node); W_list.push(node) }
findPivots_merge(W, W_list, W_curr) ==
  FoldLeft(LAMBDA acc, node :
             IF ~Includes(acc.W, node)
             THEN [W |-> Append(acc.W, node), W_list |-> Append(acc.W_list, node)]
             ELSE acc,
           [W |-> W, W_list |-> W_list], W_curr)

findPivots(c0, B, S) ==
  LET RECURSIVE round(_, _, _, _, _)
      merged(scan, m, i) ==
        IF Len(m.W) > scan.c.k_param * Len(S)
        THEN [c |-> scan.c, P |-> S, W |-> m.W_list]
        ELSE IF Len(scan.W_curr) = 0
        THEN [c |-> scan.c, P |-> S, W |-> m.W_list]
        ELSE round(scan.c, m.W, scan.W_curr, m.W_list, i + 1)
      scanned(scan, W, W_list, i) ==
        merged(scan, findPivots_merge(W, W_list, scan.W_curr), i)
      round(c, W, W_prev, W_list, i) ==
        IF i < c.k_param
        THEN scanned(findPivots_scan(c, B, W_prev), W, W_list, i)
        ELSE [c |-> c, P |-> S, W |-> W_list]
  IN round(c0, NewSet(S), NewSet(S), S, 0)

\* Algorithm 2: Base Case (Mini Dijkstra)

\* if (heap.contains(v)) heap.decreaseKey(v, v.distance) else heap.push(v, v.distance)
baseCase_enqueue(c, heap, v) ==
  [c |-> c,
   heap |-> IF MinHeap_contains(heap, v)
            THEN MinHeap_decreaseKey(heap, v, c.grid[v].distance)
            ELSE MinHeap_push(heap, v, c.grid[v].distance)]

\* The relaxation check of one edge u -> v; acc = [c, heap]
baseCase_relax(acc, B, u, v) ==
  IF /\ Plus(acc.c.grid[u].distance, 1) <= acc.c.grid[v].distance
     /\ Plus(acc.c.grid[u].distance, 1) < B
  THEN baseCase_enqueue(Relax(acc.c, "baseCase", u, v, TRUE), acc.heap, v)
  ELSE acc

\* for (const v of neighbors) ...
baseCase_expand(c, heap, B, u) ==
  FoldLeft(LAMBDA acc, v : baseCase_relax(acc, B, u, v),
           [c |-> c, heap |-> heap], bmssp_getNeighbors(c.grid, u))

baseCase_maxDist(c, U0) ==
  FoldLeft(LAMBDA m, node :
             IF c.grid[node].distance > m /\ c.grid[node].distance # Infinity
             THEN c.grid[node].distance ELSE m,
           0, U0)

\* Mutant: the nodes at the boundary are returned as well.
baseCase_filter_inclusive(c, U0, maxDist) ==
  [c |-> c, boundary |-> maxDist,
   U |-> SelectSeq(U0, LAMBDA n : c.grid[n].distance <= maxDist)]

baseCase_filter(c, U0, maxDist) ==
  [c |-> c, boundary |-> maxDist,
   U |-> SelectSeq(U0, LAMBDA n : c.grid[n].distance < maxDist)]

\* The statements after the while loop; end = [c, U0]
baseCase_return(end, B) ==
  IF Len(end.U0) <= end.c.k_param
  THEN [c |-> end.c, boundary |-> B, U |-> end.U0]
  ELSE baseCase_filter(end.c, end.U0, baseCase_maxDist(end.c, end.U0))

\* The return of baseCase, recorded in c.calls
baseCase_recorded(result, U0, B, S, from) ==
  [result EXCEPT !.c =
     Record(@, [NoRecord EXCEPT !.kind = "baseCase", !.B = B, !.S = S,
                                !.U0 = U0, !.dist0 = Distances(result.c, U0),
                                !.boundary = result.boundary, !.U = result.U,
                                !.dist = Distances(result.c, result.U),
                                !.closed = ClosedSince(result.c, from)])]

baseCase_returned(end, B, S, from) ==
  baseCase_recorded(baseCase_return(end, B), end.U0, B, S, from)

baseCase(c0, B, S) ==
  LET RECURSIVE loop(_, _, _)
      expanded(U0, u, relaxed) == loop(relaxed.c, SetAdd(U0, u), relaxed.heap)
      visit(c, U0, min, elements) ==
        IF min.dist >= B THEN [c |-> c, U0 |-> U0]
        ELSE expanded(U0, min.node,
                      baseCase_expand(Close(c, "baseCase", min.node), elements, B, min.node))
      popped(c, U0, pop) == visit(c, U0, pop.min, pop.elements)
      loop(c, U0, heap) ==
        IF Len(heap) # 0 /\ Len(U0) < c.k_param + 1
        THEN popped(c, U0, MinHeap_pop(heap))
        ELSE [c |-> c, U0 |-> U0]
  IN baseCase_returned(
       loop(c0, NewSet(S),
            FoldLeft(LAMBDA h, node : MinHeap_push(h, node, c0.grid[node].distance),
                     <<>>, S)),
       B, S, Len(c0.log))

\* Algorithm 3: BMSSP Recursive

\* for (const node of Ui) { U.add(node); if (!node.isVisited) ... }
bmsspRecursive_addAll(c, U, Ui) ==
  FoldLeft(LAMBDA acc, node :
             [c |-> Close(acc.c, "bmsspRecursive", node), U |-> SetAdd(acc.U, node)],
           [c |-> c, U |-> U], Ui)

\* Mutant: a relaxed v at or above Bi goes into K as well.
bmsspRecursive_route_allK(c, D, K, B, Bi, B_prime_i, v) ==
  IF c.grid[v].distance >= B_prime_i /\ c.grid[v].distance < B
  THEN [c |-> c, D |-> D, K |-> Append(K, [node |-> v, val |-> c.grid[v].distance])]
  ELSE [c |-> c, D |-> D, K |-> K]

\* Where the relaxed v goes: back into D, into K, or nowhere
bmsspRecursive_route(c, D, K, B, Bi, B_prime_i, v) ==
  IF c.grid[v].distance >= Bi /\ c.grid[v].distance < B
  THEN [c |-> c, D |-> StructureD_insert(D, v, c.grid[v].distance), K |-> K]
  ELSE IF c.grid[v].distance >= B_prime_i /\ c.grid[v].distance < Bi
  THEN [c |-> c, D |-> D, K |-> Append(K, [node |-> v, val |-> c.grid[v].distance])]
  ELSE [c |-> c, D |-> D, K |-> K]

\* Mutant: the relaxed v is pushed on visitedNodesInOrder.
bmsspRecursive_relax_pushes(acc, B, Bi, B_prime_i, u, v) ==
  IF Plus(acc.c.grid[u].distance, 1) <= acc.c.grid[v].distance
  THEN bmsspRecursive_route(Relax(acc.c, "bmsspRecursive", u, v, TRUE),
                            acc.D, acc.K, B, Bi, B_prime_i, v)
  ELSE acc

\* The relaxation check of one edge u -> v; acc = [c, D, K]
bmsspRecursive_relax(acc, B, Bi, B_prime_i, u, v) ==
  IF Plus(acc.c.grid[u].distance, 1) <= acc.c.grid[v].distance
  THEN bmsspRecursive_route(Relax(acc.c, "bmsspRecursive", u, v, FALSE),
                            acc.D, acc.K, B, Bi, B_prime_i, v)
  ELSE acc

\* for (const u of Ui) for (const v of neighbors) ...
bmsspRecursive_relaxAll(c, D, B, Bi, B_prime_i, Ui) ==
  FoldLeft(LAMBDA accU, u :
             FoldLeft(LAMBDA acc, v : bmsspRecursive_relax(acc, B, Bi, B_prime_i, u, v),
                      accU, bmssp_getNeighbors(accU.c.grid, u)),
           [c |-> c, D |-> D, K |-> <<>>], Ui)

\* prependList = [...K] plus the nodes of Si whose distance lies in [B_prime_i, Bi)
bmsspRecursive_prependList(c, K, Si, Bi, B_prime_i) ==
  FoldLeft(LAMBDA list, x :
             IF c.grid[x].distance >= B_prime_i /\ c.grid[x].distance < Bi
             THEN Append(list, [node |-> x, val |-> c.grid[x].distance])
             ELSE list,
           K, Si)

\* D before the while loop: initialize(M, B), then insert every pivot
bmsspRecursive_initD(c, l, B, P) ==
  FoldLeft(LAMBDA d, x : StructureD_insert(d, x, c.grid[x].distance),
           StructureD_initialize(2 ^ ((l - 1) * c.t_param), B), P)

\* B_prime before the while loop
bmsspRecursive_initBound(c, B, P) ==
  IF Len(P) = 0 THEN B
  ELSE FoldLeft(LAMBDA b, x : IF c.grid[x].distance < b THEN c.grid[x].distance ELSE b,
                Infinity, P)

\* for (const x of W) if (x.distance < B_prime) { U.add(x); ... }
bmsspRecursive_addW(c, U, W, B_prime) ==
  FoldLeft(LAMBDA acc, x :
             IF acc.c.grid[x].distance < B_prime
             THEN [c |-> Close(acc.c, "bmsspRecursive", x), U |-> SetAdd(acc.U, x)]
             ELSE acc,
           [c |-> c, U |-> U], W)

RECURSIVE bmsspRecursive(_, _, _, _)
RECURSIVE bmsspPullLoop(_, _, _, _, _, _)

\* D.batchPrepend(prependList), recorded in c.calls
bmsspPullLoop_batchPrepend(c, l, B, D, U, Bi, B_prime_i, prependList) ==
  bmsspPullLoop(Record(c, [NoRecord EXCEPT !.kind = "batchPrepend", !.l = l, !.B = B,
                                           !.list = prependList, !.items = D.items,
                                           !.Bi = Bi, !.B_prime_i = B_prime_i]),
                l, B, StructureD_batchPrepend(D, prependList), U, Min(B_prime_i, B))

\* The loop body from D.batchPrepend on; relaxed = [c, D, K]
bmsspPullLoop_prepend(relaxed, l, B, U, Si, Bi, B_prime_i) ==
  bmsspPullLoop_batchPrepend(relaxed.c, l, B, relaxed.D, U, Bi, B_prime_i,
    bmsspRecursive_prependList(relaxed.c, relaxed.K, Si, Bi, B_prime_i))

\* The loop body from the edge relaxation on; added = [c, U]
bmsspPullLoop_relax(added, l, B, D, Si, Bi, B_prime_i, Ui) ==
  bmsspPullLoop_prepend(bmsspRecursive_relaxAll(added.c, D, B, Bi, B_prime_i, Ui),
                        l, B, added.U, Si, Bi, B_prime_i)

\* The loop body after the recursive call; result = [c, boundary, U]
bmsspPullLoop_merge(result, l, B, D, U, Si, Bi) ==
  bmsspPullLoop_relax(bmsspRecursive_addAll(result.c, U, result.U),
                      l, B, D, Si, Bi, result.boundary, result.U)

\* The loop body after D.pull(); pulled = [Bi, Si, D]
bmsspPullLoop_recurse(c, l, B, U, pulled) ==
  bmsspPullLoop_merge(bmsspRecursive(c, l - 1, pulled.Bi, pulled.Si),
                      l, B, pulled.D, U, pulled.Si, pulled.Bi)

\* while (U.size < sizeLimit && !D.isEmpty()) { ... }
bmsspPullLoop(c, l, B, D, U, B_prime) ==
  IF Len(U) < c.k_param * 2 ^ (l * c.t_param) /\ ~StructureD_isEmpty(D)
  THEN bmsspPullLoop_recurse(c, l, B, U, StructureD_pull(D))
  ELSE [c |-> c, U |-> U, B_prime |-> B_prime]

\* return { boundary: B_prime, U: Array.from(U) }; final = [c, U]
bmsspRecursive_return(final, B_prime) ==
  [c |-> final.c, boundary |-> B_prime, U |-> final.U]

\* The statements after the while loop; pulled = [c, U, B_prime]
bmsspRecursive_finish(pulled, W) ==
  bmsspRecursive_return(bmsspRecursive_addW(pulled.c, pulled.U, W, pulled.B_prime),
                        pulled.B_prime)

\* The statements after findPivots; pivots = [c, P, W]
bmsspRecursive_pivoted(pivots, l, B) ==
  bmsspRecursive_finish(
    bmsspPullLoop(pivots.c, l, B, bmsspRecursive_initD(pivots.c, l, B, pivots.P),
                  <<>>, bmsspRecursive_initBound(pivots.c, B, pivots.P)),
    pivots.W)

\* The return of bmsspRecursive at a level above 0, recorded in c.calls
bmsspRecursive_recorded(result, l, B, S) ==
  [result EXCEPT !.c =
     Record(@, [NoRecord EXCEPT !.kind = "bmsspRecursive", !.l = l, !.B = B, !.S = S,
                                !.boundary = result.boundary, !.U = result.U,
                                !.dist = Distances(result.c, result.U)])]

bmsspRecursive(c0, l, B, S) ==
  IF l = 0 THEN baseCase(c0, B, S)
  ELSE bmsspRecursive_recorded(bmsspRecursive_pivoted(findPivots(c0, B, S), l, B), l, B, S)

\* Math.floor(Math.pow(Math.log2(N), 1/3)), clamped to >= 2 (exact for N < 2^27)
bmssp_k(N) ==
  LET raw == CHOOSE m \in 0..2 : 2 ^ (m * m * m) <= N /\ 2 ^ ((m + 1) * (m + 1) * (m + 1)) > N
  IN IF raw < 2 THEN 2 ELSE raw

\* Math.floor(Math.pow(Math.log2(N), 2/3)), clamped to >= 2: the floor reaches
\* 1, 2, 3, 4 at N = 2, 8, 37, 256 (exact for N < 2322)
bmssp_t(N) ==
  LET raw == IF N >= 256 THEN 4 ELSE IF N >= 37 THEN 3 ELSE IF N >= 8 THEN 2
             ELSE IF N >= 2 THEN 1 ELSE 0
  IN IF raw < 2 THEN 2 ELSE raw

\* Math.ceil(Math.log2(N) / t_param): the least l with 2^(l * t) >= N
bmssp_l(N, t) ==
  CHOOSE l \in 0..6 : 2 ^ (l * t) >= N /\ (l = 0 \/ 2 ^ ((l - 1) * t) < N)

\* bmsspRecursive is under way: the writes it has yet to make, and its calls.
bmsspStarted(s, c) ==
  [s EXCEPT !.pending = c.log, !.calls = c.calls, !.pc = "running"]

\* Mutant: visitedNodesInOrder is not emptied at the start of bmssp.
bmsspEnter_keepsVisited(s) ==
  LET N == Cardinality(DOMAIN s.grid)
      reset == [n \in DOMAIN s.grid |->
                  [s.grid[n] EXCEPT !.distance = IF n = startNode THEN 0 ELSE Infinity,
                                    !.isVisited = FALSE, !.previousNode = null]]
      run == bmsspRecursive([grid |-> reset, visitedNodesInOrder |-> s.visitedNodesInOrder,
                             k_param |-> bmssp_k(N), t_param |-> bmssp_t(N), log |-> <<>>,
                             calls |-> <<>>],
                            bmssp_l(N, bmssp_t(N)), Infinity, <<startNode>>)
  IN bmsspStarted([s EXCEPT !.grid = reset,
                            !.k_param = bmssp_k(N), !.t_param = bmssp_t(N)], run.c)

\* bmsspEnter that leaves the nodes' search fields as it finds them.
bmsspEnter_noReset(s) ==
  LET N == Cardinality(DOMAIN s.grid)
      reset == [s.grid EXCEPT ![startNode].distance = 0]
      run == bmsspRecursive([grid |-> reset, visitedNodesInOrder |-> <<>>,
                             k_param |-> bmssp_k(N), t_param |-> bmssp_t(N), log |-> <<>>,
                             calls |-> <<>>],
                            bmssp_l(N, bmssp_t(N)), Infinity, <<startNode>>)
  IN bmsspStarted([s EXCEPT !.grid = reset, !.visitedNodesInOrder = <<>>,
                            !.k_param = bmssp_k(N), !.t_param = bmssp_t(N)], run.c)

\* bmssp up to the call of bmsspRecursive: reset every node, set the parameters.
bmsspEnter(s) ==
  LET N == Cardinality(DOMAIN s.grid)
      reset == [n \in DOMAIN s.grid |->
                  [s.grid[n] EXCEPT !.distance = IF n = startNode THEN 0 ELSE Infinity,
                                    !.isVisited = FALSE, !.previousNode = null]]
      run == bmsspRecursive([grid |-> reset, visitedNodesInOrder |-> <<>>,
                             k_param |-> bmssp_k(N), t_param |-> bmssp_t(N), log |-> <<>>,
                             calls |-> <<>>],
                            bmssp_l(N, bmssp_t(N)), Infinity, <<startNode>>)
  IN bmsspStarted([s EXCEPT !.grid = reset, !.visitedNodesInOrder = <<>>,
                            !.k_param = bmssp_k(N), !.t_param = bmssp_t(N)], run.c)

\* Mutant: the path is reconstructed without testing finishNode.distance.
bmsspStep_noGuard(s) ==
  IF s.pending # <<>>
  THEN LET r == ApplyEvent(s.grid, s.visitedNodesInOrder, Head(s.pending))
       IN [s EXCEPT !.grid = r.grid, !.visitedNodesInOrder = r.visitedNodesInOrder,
                    !.pending = Tail(@)]
  ELSE Return([s EXCEPT !.calls = <<>>], getNodesInShortestPathOrder(s.grid, finishNode))

\* The next write of the running bmsspRecursive; once it has returned, the
\* path reconstruction.
bmsspStep(s) ==
  IF s.pending # <<>>
  THEN LET r == ApplyEvent(s.grid, s.visitedNodesInOrder, Head(s.pending))
       IN [s EXCEPT !.grid = r.grid, !.visitedNodesInOrder = r.visitedNodesInOrder,
                    !.pending = Tail(@)]
  ELSE Return([s EXCEPT !.calls = <<>>],
              IF s.grid[finishNode].distance # Infinity
              THEN getNodesInShortestPathOrder(s.grid, finishNode)
              ELSE <<>>)

----------------------------------------------------------------------------
\* Animation timers and the history table

\* The delays of the animation; only their being positive matters to the
\* order of the timers.
ANIMATION_SPEED_MS == 10
SHORTEST_PATH_SPEED_MS == 50

\* The delay animateAlgorithm hands to setTimeout for step i, in whole
\* milliseconds.
speed(i) ==
  IF selectedAlgorithm = "bidirectionalSwarm"
  THEN (ANIMATION_SPEED_MS * 8 * i) \div 10
  ELSE ANIMATION_SPEED_MS * i

\* animateAlgorithm: one timer per visited node and the one that calls
\* animateShortestPath, in the order the loop sets them.
animateAlgorithm(visited) ==
  [j \in 1..(Len(visited) + 1) |->
     [due |-> speed(j - 1),
      kind |-> IF j - 1 = Len(visited) THEN "animateShortestPath" ELSE "visited",
      i |-> j - 1]]

\* animateShortestPath called at time now: one timer per path node and the
\* final one.
animateShortestPath(path, now) ==
  [j \in 1..(Len(path) + 1) |->
     [due |-> now + SHORTEST_PATH_SPEED_MS * (j - 1),
      kind |-> IF j - 1 = Len(path) THEN "final" ELSE "path",
      i |-> j - 1]]

\* NextTimer that runs the timer set last.
NextTimer_lastSet(ts) == Len(ts)

\* The timer the event loop runs next: the one due first, and among those
\* due together the one set first.
NextTimer(ts) ==
  CHOOSE p \in 1..Len(ts) :
    \A q \in 1..Len(ts) :
      ts[p].due < ts[q].due \/ (ts[p].due = ts[q].due /\ p <= q)

formatAlgorithmName(slug) ==
  CASE slug = "dijkstra" -> "Dijkstra's"
    [] slug = "astar" -> "A* Search"
    [] slug = "greedyBfs" -> "Greedy BFS"
    [] slug = "bidirectionalSwarm" -> "Bi-Direct Swarm"
    [] slug = "bmssp" -> "BMSSP (Duan et al. '25)"
    [] OTHER -> slug

\* Date.now() of the final timer, as the entry's id: later than that of every
\* entry of h.
DateNow(h) ==
  IF h = <<>> THEN 1
  ELSE 1 + (CHOOSE m \in {h[i].id : i \in 1..Len(h)} : \A i \in 1..Len(h) : h[i].id <= m)

\* The entry the final timer hands to addToHistory (timestamps, durations
\* and the snapshot are not followed).
HistoryEntry(id) ==
  [id |-> id,
   algorithm |-> formatAlgorithmName(selectedAlgorithm),
   visitedNodes |-> Len(visitedNodesInOrder),
   shortestPathLength |-> Len(nodesInShortestPathOrder),
   shortestPathFound |-> shortestPathFound]

\* The value history holds in a specification that does not follow the
\* history table.
NotFollowed ==
  <<[id |-> -1, algorithm |-> "", visitedNodes |-> 0, shortestPathLength |-> 0,
     shortestPathFound |-> "unset"]>>

\* addToHistory as the run's final timer calls it: history is the one of the
\* render in which the run was started.
addToHistory(entry) ==
  IF historyInClosure = NotFollowed
  THEN UNCHANGED <<history, pathfinder_history>>
  ELSE /\ history' = <<entry>> \o historyInClosure
       /\ pathfinder_history' = <<entry>> \o historyInClosure

----------------------------------------------------------------------------
\* State machine

\* The driver's interaction state and the strategies' state before any run.
InitRun ==
  /\ pc = "idle"
  /\ openSet = <<>>
  /\ visitedNodesInOrder = <<>>
  /\ nodesInShortestPathOrder = <<>>
  /\ startOpenSet = <<>>
  /\ finishOpenSet = <<>>
  /\ visitedByStart = EmptyMap
  /\ visitedByFinish = EmptyMap
  /\ gScoreStart = EmptyMap
  /\ gScoreFinish = EmptyMap
  /\ fScoreStart = EmptyMap
  /\ fScoreFinish = EmptyMap
  /\ pending = <<>>
  /\ isVisualizing = FALSE
  /\ isMousePressed = FALSE
  /\ draggingState = "null"
  /\ animated = 0
  /\ newGrid = <<>>
  /\ iterations = 0
  /\ shortestPathFound = "unset"
  /\ structureD = StructureD_new
  /\ lastCall = NoCall
  /\ calls = <<>>
  /\ minHeap = <<>>
  /\ timers = <<>>

\* InitRun in a specification that does not follow the history table.
InitDriver ==
  /\ InitRun
  /\ history = NotFollowed
  /\ pathfinder_history = NotFollowed
  /\ historyInClosure = NotFollowed

\* Every grid of at most maxCells cells that meets the strategies'
\* preconditions (distinct non-wall start and finish, search fields reset),
\* with any strategy selected.
InitWithin(maxCells) ==
  /\ \E r \in 1..MaxRows, c \in 1..MaxCols :
       /\ r * c >= 2
       /\ r * c <= maxCells
       /\ rows = r
       /\ cols = c
       /\ \E s \in Cells(r, c), f \in Cells(r, c) :
            /\ s # f
            /\ startNode = s
            /\ finishNode = f
            /\ \E walls \in SUBSET (Cells(r, c) \ {s, f}) :
                 grid = [n \in Cells(r, c) |->
                           [createNode(n[2], n[1], s, f) EXCEPT !.isWall = (n \in walls)]]
  /\ selectedAlgorithm \in AlgorithmType
  /\ k_param = 0
  /\ t_param = 0
  /\ InitDriver

Init == InitWithin(MaxCells)

\* What no step of a strategy writes.
Unchanged ==
  UNCHANGED <<rows, cols, startNode, finishNode, selectedAlgorithm,
              isVisualizing, isMousePressed, draggingState, animated, newGrid,
              shortestPathFound, structureD, lastCall,
              minHeap, history, pathfinder_history, historyInClosure, timers>>

\* Reset Grid Data (keep walls)
resetVisuals(g) ==
  [n \in DOMAIN g |->
     [g[n] EXCEPT !.distance = Infinity, !.totalDistance = Infinity,
                  !.heuristicDistance = Infinity, !.isVisited = FALSE,
                  !.previousNode = null]]

\* What runAlgorithm hands to the strategy: the clean grid.  A strategy's
\* locals start empty; bmssp's module-scoped k_param, t_param and
\* visitedNodesInOrder hold what the last run left in them.
cleanState ==
  [SearchState EXCEPT !.grid = resetVisuals(grid), !.openSet = <<>>,
                      !.nodesInShortestPathOrder = <<>>,
                      !.startOpenSet = <<>>, !.finishOpenSet = <<>>,
                      !.visitedByStart = EmptyMap, !.visitedByFinish = EmptyMap,
                      !.gScoreStart = EmptyMap, !.gScoreFinish = EmptyMap,
                      !.fScoreStart = EmptyMap, !.fScoreFinish = EmptyMap,
                      !.pending = <<>>, !.calls = <<>>]

\* The entry of the strategy runAlgorithm's switch selects.
strategyEnter(s) ==
  CASE selectedAlgorithm = "dijkstra" -> dijkstraEnter(s)
    [] selectedAlgorithm = "astar" -> astarEnter(s)
    [] selectedAlgorithm = "greedyBfs" -> greedyBfsEnter(s)
    [] selectedAlgorithm = "bidirectionalSwarm" -> bidirectionalSwarmEnter(s)
    [] selectedAlgorithm = "bmssp" -> bmsspEnter(s)

\* runAlgorithm up to the first statements of the selected strategy.
runAlgorithm ==
  /\ ~isVisualizing
  /\ pc # "running"
  /\ isVisualizing' = TRUE
  /\ iterations' = 0
  /\ shortestPathFound' = "unset"
  /\ Commit(strategyEnter(cleanState))
  /\ historyInClosure' = history
  /\ UNCHANGED <<rows, cols, startNode, finishNode, selectedAlgorithm,
                 isMousePressed, draggingState, animated, newGrid,
                 structureD, lastCall, minHeap, history, pathfinder_history, timers>>

dijkstraLoop ==
  /\ pc = "running"
  /\ selectedAlgorithm = "dijkstra"
  /\ Commit(dijkstraIteration(SearchState))
  /\ iterations' = iterations + 1
  /\ Unchanged

astarLoop ==
  /\ pc = "running"
  /\ selectedAlgorithm = "astar"
  /\ Commit(astarIteration(SearchState))
  /\ iterations' = iterations + 1
  /\ Unchanged

greedyBfsLoop ==
  /\ pc = "running"
  /\ selectedAlgorithm = "greedyBfs"
  /\ Commit(greedyBfsIteration(SearchState))
  /\ iterations' = iterations + 1
  /\ Unchanged

bidirectionalSwarmLoop ==
  /\ pc = "running"
  /\ selectedAlgorithm = "bidirectionalSwarm"
  /\ Commit(bidirectionalSwarmIteration(SearchState))
  /\ iterations' = iterations + 1
  /\ Unchanged

bmsspRun ==
  /\ pc = "running"
  /\ selectedAlgorithm = "bmssp"
  /\ Commit(bmsspStep(SearchState))
  /\ iterations' = iterations + 1
  /\ Unchanged

\* The driver's oracle: Dijkstra re-run on a new grid with the same walls.
verifyGrid ==
  [n \in Nodes |->
     [getInitialGrid(startNode, finishNode)[n] EXCEPT !.isWall = grid[n].isWall]]

groundTruth ==
  LET RECURSIVE run(_)
      run(s) == IF s.pc = "done" THEN s ELSE run(dijkstraIteration(s))
  IN run(dijkstraEnter([SearchState EXCEPT !.grid = verifyGrid, !.openSet = <<>>,
                                           !.visitedNodesInOrder = <<>>,
                                           !.nodesInShortestPathOrder = <<>>,
                                           !.pc = "idle"]))

isOptimal(foundPathLength, optimalPathLength) ==
  foundPathLength = optimalPathLength \/ (foundPathLength = 0 /\ optimalPathLength = 0)

\* Mutant: the oracle runs on the strategy's own grid, reset, instead of a new one.
verifyShortestPath_sharedGrid(s) ==
  LET RECURSIVE run(_)
      run(v) == IF v.pc = "done" THEN v ELSE run(dijkstraIteration(v))
  IN [grid |-> run(dijkstraEnter([cleanState EXCEPT !.visitedNodesInOrder = <<>>])).grid,
      visitedNodesInOrder |-> s.visitedNodesInOrder,
      nodesInShortestPathOrder |-> s.nodesInShortestPathOrder,
      isOptimal |-> isOptimal(Len(s.nodesInShortestPathOrder),
                              Len(groundTruth.nodesInShortestPathOrder))]

\* Verify Shortest Path (Ground Truth Calculation): the strategy's grid and
\* result as the oracle run leaves them, and the verdict.
verifyShortestPath(s) ==
  [grid |-> s.grid,
   visitedNodesInOrder |-> s.visitedNodesInOrder,
   nodesInShortestPathOrder |-> s.nodesInShortestPathOrder,
   isOptimal |-> isOptimal(Len(s.nodesInShortestPathOrder),
                           Len(groundTruth.nodesInShortestPathOrder))]

\* What the oracle run leaves: the strategy's grid and result, and isOptimal.
CommitVerdict(r) ==
  /\ grid' = r.grid
  /\ visitedNodesInOrder' = r.visitedNodesInOrder
  /\ nodesInShortestPathOrder' = r.nodesInShortestPathOrder
  /\ shortestPathFound' = IF r.isOptimal THEN "true" ELSE "false"
  /\ timers' = animateAlgorithm(r.visitedNodesInOrder)

\* runAlgorithm from the strategy's return to the call of animateAlgorithm.
runAlgorithmVerify ==
  /\ pc = "done"
  /\ isVisualizing
  /\ shortestPathFound = "unset"
  /\ CommitVerdict(verifyShortestPath(SearchState))
  /\ UNCHANGED <<rows, cols, startNode, finishNode, selectedAlgorithm, pc, openSet,
                 startOpenSet, finishOpenSet, visitedByStart, visitedByFinish,
                 gScoreStart, gScoreFinish, fScoreStart, fScoreFinish,
                 k_param, t_param, pending, isVisualizing, isMousePressed,
                 draggingState, animated, newGrid, iterations,
                 structureD, lastCall, calls,
                 minHeap, history, pathfinder_history, historyInClosure>>

Next ==
  \/ runAlgorithm
  \/ runAlgorithmVerify
  \/ dijkstraLoop
  \/ astarLoop
  \/ greedyBfsLoop
  \/ bidirectionalSwarmLoop
  \/ bmsspRun

Spec == Init /\ [][Next]_vars

----------------------------------------------------------------------------
\* The editor: mouse handlers, buttons and animation timers of the driver.
\* JavaScript runs a handler, and the strategy runAlgorithm calls, to
\* completion before the next event: no event is taken while runAlgorithm
\* has not returned.

\* runAlgorithm is between its first statement and its call of animateAlgorithm.
handlerRunning ==
  pc = "running" \/ (pc = "done" /\ isVisualizing /\ shortestPathFound = "unset")

\* What a handler that only edits the grid leaves alone.
strategyVars ==
  <<openSet, visitedNodesInOrder, nodesInShortestPathOrder,
    startOpenSet, finishOpenSet, visitedByStart, visitedByFinish,
    gScoreStart, gScoreFinish, fScoreStart, fScoreFinish,
    k_param, t_param, pending, pc, iterations, structureD, lastCall, calls,
    minHeap, history, pathfinder_history, historyInClosure, timers>>

toggleWall(currentGrid, row, col) ==
  [currentGrid EXCEPT ![<<row, col>>].isWall = ~@]

updateNodePositions(currentGrid, startPos, finishPos) ==
  [n \in DOMAIN currentGrid |->
     LET node == currentGrid[n]
         isStart == n = startPos
         isFinish == n = finishPos
     IN IF node.isStart # isStart \/ node.isFinish # isFinish
        THEN [node EXCEPT !.isStart = isStart, !.isFinish = isFinish]
        ELSE node]

\* Mutant: walls are drawn for every cell, start and finish included.
generateRandomMaze_overwrites(g, draws) ==
  [grid |-> g,
   newGrid |-> [n \in DOMAIN g |->
                  [g[n] EXCEPT !.isWall = (n \in draws),
                               !.isVisited = FALSE, !.distance = Infinity,
                               !.totalDistance = Infinity,
                               !.heuristicDistance = Infinity,
                               !.previousNode = null]]]

\* generateRandomMaze; draws is the set of cells for which
\* Math.random() < WALL_DENSITY came out true.  The result pairs the input
\* grid as the call leaves it with the grid the call returns.
generateRandomMaze(g, draws) ==
  [grid |-> g,
   newGrid |-> [n \in DOMAIN g |->
                  [g[n] EXCEPT !.isWall = (~g[n].isStart /\ ~g[n].isFinish /\ n \in draws),
                               !.isVisited = FALSE, !.distance = Infinity,
                               !.totalDistance = Infinity,
                               !.heuristicDistance = Infinity,
                               !.previousNode = null]]]

\* Mutant: mouse down without the isVisualizing test.
handleMouseDown_unguarded(row, col) ==
  /\ ~handlerRunning
  /\ isMousePressed' = TRUE
  /\ IF grid[<<row, col>>].isStart
       THEN draggingState' = "start" /\ grid' = grid
     ELSE IF grid[<<row, col>>].isFinish
       THEN draggingState' = "finish" /\ grid' = grid
     ELSE draggingState' = "wall" /\ grid' = toggleWall(grid, row, col)
  /\ UNCHANGED <<rows, cols, startNode, finishNode, selectedAlgorithm,
                 isVisualizing, animated, newGrid>>
  /\ UNCHANGED <<strategyVars, shortestPathFound>>

handleMouseDown(row, col) ==
  /\ ~handlerRunning
  /\ IF isVisualizing THEN UNCHANGED vars
     ELSE /\ isMousePressed' = TRUE
          /\ IF grid[<<row, col>>].isStart
               THEN draggingState' = "start" /\ grid' = grid
             ELSE IF grid[<<row, col>>].isFinish
               THEN draggingState' = "finish" /\ grid' = grid
             ELSE draggingState' = "wall" /\ grid' = toggleWall(grid, row, col)
          /\ UNCHANGED <<rows, cols, startNode, finishNode, selectedAlgorithm,
                         isVisualizing, animated, newGrid>>
          /\ UNCHANGED <<strategyVars, shortestPathFound>>

handleMouseEnter(row, col) ==
  /\ ~handlerRunning
  /\ IF ~isMousePressed \/ isVisualizing THEN UNCHANGED vars
     ELSE /\ IF draggingState = "start"
               THEN IF <<row, col>> = finishNode
                      THEN UNCHANGED <<startNode, finishNode, grid>>
                      ELSE /\ startNode' = <<row, col>>
                           /\ grid' = updateNodePositions(grid, <<row, col>>, finishNode)
                           /\ UNCHANGED finishNode
             ELSE IF draggingState = "finish"
               THEN IF <<row, col>> = startNode
                      THEN UNCHANGED <<startNode, finishNode, grid>>
                      ELSE /\ finishNode' = <<row, col>>
                           /\ grid' = updateNodePositions(grid, startNode, <<row, col>>)
                           /\ UNCHANGED startNode
             ELSE IF draggingState = "wall"
               THEN /\ grid' = IF grid[<<row, col>>].isStart \/ grid[<<row, col>>].isFinish
                                 THEN grid
                                 ELSE toggleWall(grid, row, col)
                    /\ UNCHANGED <<startNode, finishNode>>
             ELSE UNCHANGED <<startNode, finishNode, grid>>
          /\ UNCHANGED <<rows, cols, selectedAlgorithm, isVisualizing,
                         isMousePressed, draggingState, animated, newGrid>>
          /\ UNCHANGED <<strategyVars, shortestPathFound>>

handleMouseUp ==
  /\ ~handlerRunning
  /\ isMousePressed' = FALSE
  /\ draggingState' = "null"
  /\ UNCHANGED <<grid, rows, cols, startNode, finishNode, selectedAlgorithm,
                 isVisualizing, animated, newGrid>>
  /\ UNCHANGED <<strategyVars, shortestPathFound>>

handleGenerateMaze ==
  /\ ~handlerRunning
  /\ IF isVisualizing THEN UNCHANGED vars
     ELSE /\ \E draws \in SUBSET Nodes :
               grid' = generateRandomMaze(grid, draws).newGrid
          /\ UNCHANGED <<rows, cols, startNode, finishNode, selectedAlgorithm,
                         isVisualizing, isMousePressed, draggingState, animated,
                         newGrid>>
          /\ UNCHANGED <<strategyVars, shortestPathFound>>

clearBoard ==
  /\ ~handlerRunning
  /\ IF isVisualizing THEN UNCHANGED vars
     ELSE /\ grid' = getInitialGrid(startNode, finishNode)
          /\ UNCHANGED <<rows, cols, startNode, finishNode, selectedAlgorithm,
                         isVisualizing, isMousePressed, draggingState, animated,
                         newGrid>>
          /\ UNCHANGED <<strategyVars, shortestPathFound>>

clearPath ==
  /\ ~handlerRunning
  /\ IF isVisualizing THEN UNCHANGED vars
     ELSE /\ grid' = resetVisuals(grid)
          /\ UNCHANGED <<rows, cols, startNode, finishNode, selectedAlgorithm,
                         isVisualizing, isMousePressed, draggingState, animated,
                         newGrid>>
          /\ UNCHANGED <<strategyVars, shortestPathFound>>

\* The algorithm select; the control is disabled while isVisualizing.
setSelectedAlgorithm(a) ==
  /\ ~handlerRunning
  /\ ~isVisualizing
  /\ selectedAlgorithm' = a
  /\ UNCHANGED <<grid, rows, cols, startNode, finishNode, isVisualizing,
                 isMousePressed, draggingState, animated, newGrid>>
  /\ UNCHANGED <<strategyVars, shortestPathFound>>

\* The Visualize button pressed while a visualization is on.
runAlgorithmIgnored ==
  /\ ~handlerRunning
  /\ isVisualizing
  /\ UNCHANGED vars

\* Clear History button
clearHistory ==
  /\ ~handlerRunning
  /\ history # <<>>
  /\ history' = <<>>
  /\ pathfinder_history' = <<>>
  /\ UNCHANGED <<rows, cols, grid, startNode, finishNode, selectedAlgorithm, pc,
                 openSet, visitedNodesInOrder, nodesInShortestPathOrder,
                 startOpenSet, finishOpenSet, visitedByStart, visitedByFinish,
                 gScoreStart, gScoreFinish, fScoreStart, fScoreFinish,
                 k_param, t_param, pending,
                 isVisualizing, isMousePressed, draggingState, animated, newGrid,
                 iterations, shortestPathFound, structureD, lastCall, calls,
                 minHeap, historyInClosure, timers>>

\* What the callback of timer t does besides its writes to the page: a
\* visited-node or path-node step counts as fired; the hand-over sets the
\* timers of animateShortestPath; the final one adds the run's entry to the
\* history and calls setIsVisualizing(false).
timerCallback(t, rest) ==
  CASE t.kind = "animateShortestPath" ->
         /\ timers' = rest \o animateShortestPath(nodesInShortestPathOrder, t.due)
         /\ animated' = animated + 1
         /\ UNCHANGED <<isVisualizing, shortestPathFound, history, pathfinder_history>>
    [] t.kind = "final" ->
         /\ timers' = rest
         /\ animated' = 0
         /\ addToHistory(HistoryEntry(DateNow(history \o historyInClosure)))
         /\ isVisualizing' = FALSE
         /\ shortestPathFound' = "unset"
    [] OTHER ->
         /\ timers' = rest
         /\ animated' = animated + 1
         /\ UNCHANGED <<isVisualizing, shortestPathFound, history, pathfinder_history>>

\* The event loop runs the next timer of animateAlgorithm and
\* animateShortestPath.
animationTimer ==
  /\ pc = "done"
  /\ isVisualizing
  /\ shortestPathFound # "unset"
  /\ timers # <<>>
  /\ timerCallback(timers[NextTimer(timers)], RemoveAt(timers, NextTimer(timers) - 1))
  /\ UNCHANGED <<rows, cols, grid, startNode, finishNode, selectedAlgorithm, pc,
                 openSet, visitedNodesInOrder, nodesInShortestPathOrder,
                 startOpenSet, finishOpenSet, visitedByStart, visitedByFinish,
                 gScoreStart, gScoreFinish, fScoreStart, fScoreFinish,
                 k_param, t_param, pending,
                 isMousePressed, draggingState, newGrid,
                 iterations, structureD, lastCall, calls,
                 minHeap, historyInClosure>>

\* The mounted component: the initial grid of GRID_ROWS x GRID_COLS cells with
\* the default start and finish, 'dijkstra' selected.  bmssp's module-scoped
\* variables are as the module initialises them, or as an earlier call of
\* bmssp on a larger grid left them.
EditorInit ==
  /\ \E r \in 1..EditorMaxRows, c \in 1..EditorMaxCols :
       /\ r * c >= 2
       /\ r * c <= EditorMaxCells
       /\ rows = r
       /\ cols = c
       /\ \E s \in Cells(r, c), f \in Cells(r, c) :
            /\ s # f
            /\ startNode = s
            /\ finishNode = f
            /\ grid = [n \in Cells(r, c) |-> createNode(n[2], n[1], s, f)]
  /\ selectedAlgorithm = "dijkstra"
  /\ InitDriver
  /\ \/ k_param = 0 /\ t_param = 0
     \/ k_param = 2 /\ t_param = 4

EditorNext ==
  \/ \E row \in 0..(rows - 1), col \in 0..(cols - 1) : handleMouseDown(row, col)
  \/ \E row \in 0..(rows - 1), col \in 0..(cols - 1) : handleMouseEnter(row, col)
  \/ handleMouseUp
  \/ handleGenerateMaze
  \/ clearBoard
  \/ clearPath
  \/ \E a \in AlgorithmType : setSelectedAlgorithm(a)
  \/ runAlgorithm
  \/ runAlgorithmVerify
  \/ runAlgorithmIgnored
  \/ dijkstraLoop
  \/ astarLoop
  \/ greedyBfsLoop
  \/ bidirectionalSwarmLoop
  \/ bmsspRun
  \/ animationTimer

EditorSpec == EditorInit /\ [][EditorNext]_vars

----------------------------------------------------------------------------
\* generateRandomMaze as a function of its input alone.

\* Every input grid within the editor's bounds: one start and one finish,
\* walls anywhere (start and finish included), and any cells carrying what
\* an earlier run wrote.
MazeInit ==
  /\ \E r \in 1..EditorMaxRows, c \in 1..EditorMaxCols :
       /\ r * c >= 2
       /\ r * c <= EditorMaxCells
       /\ rows = r
       /\ cols = c
       /\ \E s \in Cells(r, c), f \in Cells(r, c) :
            /\ s # f
            /\ startNode = s
            /\ finishNode = f
            /\ \E walls \in SUBSET Cells(r, c), used \in SUBSET Cells(r, c) :
                 grid = [n \in Cells(r, c) |->
                           IF n \in used
                             THEN [createNode(n[2], n[1], s, f) EXCEPT
                                     !.isWall = (n \in walls), !.isVisited = TRUE,
                                     !.distance = 2, !.totalDistance = 3,
                                     !.heuristicDistance = 1, !.previousNode = s]
                             ELSE [createNode(n[2], n[1], s, f) EXCEPT
                                     !.isWall = (n \in walls)]]
  /\ selectedAlgorithm = "dijkstra"
  /\ k_param = 0
  /\ t_param = 0
  /\ InitDriver

\* One call; grid keeps the input as the call leaves it.
callGenerateRandomMaze ==
  /\ newGrid = <<>>
  /\ \E draws \in SUBSET Nodes :
       /\ grid' = generateRandomMaze(grid, draws).grid
       /\ newGrid' = generateRandomMaze(grid, draws).newGrid
  /\ UNCHANGED <<rows, cols, startNode, finishNode, selectedAlgorithm,
                 isVisualizing, isMousePressed, draggingState, animated>>
  /\ UNCHANGED <<strategyVars, shortestPathFound>>

MazeNext == callGenerateRandomMaze

MazeSpec == MazeInit /\ [][MazeNext]_vars

----------------------------------------------------------------------------
\* StructureD as a data structure: one instance, and the calls bmsspRecursive
\* makes on it in any order.

DMaxNodes == 3
DMaxVal == 2
DMaxM == 2
DMaxBatch == 2

\* The nodes handed to the structure; it compares them by identity only.
DNodes == 1..DMaxNodes

\* The values bmsspRecursive hands to an instance initialized with bound B:
\* a pivot's distance is at most the bound its batch was pulled with, and a
\* relaxed or prepended distance is below B.
DVals(B) == 0..Min(B, DMaxVal)

DEntries(B) == [node : DNodes, val : DVals(B)]

DBatches(B) == UNION {[1..n -> DEntries(B)] : n \in 0..DMaxBatch}

StructureDInit ==
  /\ InitWithin(2)
  /\ rows = 1
  /\ startNode = <<0, 0>>
  /\ selectedAlgorithm = "bmssp"

\* What no call on the structure writes.
StructureDUnchanged ==
  UNCHANGED <<rows, cols, grid, startNode, finishNode, selectedAlgorithm, pc,
              openSet, visitedNodesInOrder, nodesInShortestPathOrder,
              startOpenSet, finishOpenSet, visitedByStart, visitedByFinish,
              gScoreStart, gScoreFinish, fScoreStart, fScoreFinish,
              k_param, t_param, pending,
              isVisualizing, isMousePressed, draggingState, animated, newGrid,
              iterations, shortestPathFound, calls,
              minHeap, history, pathfinder_history, historyInClosure, timers>>

\* D.initialize(M, B), the first call on a new instance
callStructureD_initialize ==
  /\ lastCall.op = "none"
  /\ \E M \in 1..DMaxM, B \in (0..DMaxVal) \cup {Infinity} :
       /\ structureD' = StructureD_initialize(M, B)
       /\ lastCall' = [NoCall EXCEPT !.op = "initialize"]
  /\ StructureDUnchanged

\* D.insert(node, val)
callStructureD_insert ==
  /\ lastCall.op # "none"
  /\ \E node \in DNodes, val \in DVals(structureD.B) :
       /\ structureD' = StructureD_insert(structureD, node, val)
       /\ lastCall' = [NoCall EXCEPT !.op = "insert", !.node = node, !.val = val,
                                      !.before = structureD.items]
  /\ StructureDUnchanged

\* D.pull(): the result is kept in lastCall
PullResult(r, before) ==
  /\ structureD' = r.D
  /\ lastCall' = [NoCall EXCEPT !.op = "pull", !.Bi = r.Bi, !.Si = r.Si,
                                 !.before = before]

callStructureD_pull ==
  /\ lastCall.op # "none"
  /\ PullResult(StructureD_pull(structureD), structureD.items)
  /\ StructureDUnchanged

\* D.batchPrepend(items)
callStructureD_batchPrepend ==
  /\ lastCall.op # "none"
  /\ \E items \in DBatches(structureD.B) :
       /\ structureD' = StructureD_batchPrepend(structureD, items)
       /\ lastCall' = [NoCall EXCEPT !.op = "batchPrepend", !.items = items,
                                      !.before = structureD.items]
  /\ StructureDUnchanged

StructureDNext ==
  \/ callStructureD_initialize
  \/ callStructureD_insert
  \/ callStructureD_pull
  \/ callStructureD_batchPrepend

StructureDSpec == StructureDInit /\ [][StructureDNext]_vars

----------------------------------------------------------------------------
\* MinHeap as a data structure: one new instance, and push, pop and
\* decreaseKey called on it in any order with nodes 1..HeapMaxNodes, which
\* it compares by identity only.

HeapMaxNodes == 3
HeapMaxDist == 2
HeapMaxSize == 4

\* What no call on the heap writes.
MinHeapUnchanged ==
  UNCHANGED <<rows, cols, grid, startNode, finishNode, selectedAlgorithm, pc,
              openSet, visitedNodesInOrder, nodesInShortestPathOrder,
              startOpenSet, finishOpenSet, visitedByStart, visitedByFinish,
              gScoreStart, gScoreFinish, fScoreStart, fScoreFinish,
              k_param, t_param, pending,
              isVisualizing, isMousePressed, draggingState, animated, newGrid,
              iterations, shortestPathFound, calls, structureD,
              history, pathfinder_history, historyInClosure, timers>>

\* heap.push(node, dist)
callMinHeap_push ==
  /\ Len(minHeap) < HeapMaxSize
  /\ \E node \in 1..HeapMaxNodes, dist \in 0..HeapMaxDist :
       /\ minHeap' = MinHeap_push(minHeap, node, dist)
       /\ lastCall' = [NoCall EXCEPT !.op = "push", !.node = node, !.val = dist,
                                      !.before = minHeap]
  /\ MinHeapUnchanged

\* heap.pop(): what it returns is kept in lastCall.items, <<>> for undefined
callMinHeap_pop ==
  /\ IF Len(minHeap) = 0
     THEN /\ minHeap' = minHeap
          /\ lastCall' = [NoCall EXCEPT !.op = "pop"]
     ELSE /\ minHeap' = MinHeap_pop(minHeap).elements
          /\ lastCall' = [NoCall EXCEPT !.op = "pop", !.before = minHeap,
                                         !.items = <<MinHeap_pop(minHeap).min>>]
  /\ MinHeapUnchanged

\* heap.decreaseKey(node, dist)
callMinHeap_decreaseKey ==
  /\ \E node \in 1..HeapMaxNodes, dist \in 0..HeapMaxDist :
       /\ minHeap' = MinHeap_decreaseKey(minHeap, node, dist)
       /\ lastCall' = [NoCall EXCEPT !.op = "decreaseKey", !.node = node, !.val = dist,
                                      !.before = minHeap]
  /\ MinHeapUnchanged

MinHeapNext ==
  \/ callMinHeap_push
  \/ callMinHeap_pop
  \/ callMinHeap_decreaseKey

MinHeapSpec == StructureDInit /\ [][MinHeapNext]_vars

----------------------------------------------------------------------------
\* A strategy called on a grid as it is, without the driver's reset.

DirtyMaxCells == 4
DirtyMaxDistance == 1

\* Every grid of at most DirtyMaxCells cells with distinct non-wall start and
\* finish, on which any cells hold what an earlier run left: isVisited on
\* the cells of visited; a distance, a totalDistance and a previousNode on
\* the cells of reached.  The start node has no previousNode, as after every
\* run.
DirtyInit ==
  /\ \E r \in 1..MaxRows, c \in 1..MaxCols :
       /\ r * c >= 2
       /\ r * c <= DirtyMaxCells
       /\ rows = r
       /\ cols = c
       /\ \E s \in Cells(r, c), f \in Cells(r, c) :
            /\ s # f
            /\ startNode = s
            /\ finishNode = f
            /\ \E walls \in SUBSET (Cells(r, c) \ {s, f}),
                  visited \in SUBSET Cells(r, c),
                  reached \in SUBSET (Cells(r, c) \ {s}),
                  d \in 0..DirtyMaxDistance :
                 grid = [n \in Cells(r, c) |->
                           [createNode(n[2], n[1], s, f) EXCEPT
                              !.isWall = (n \in walls),
                              !.isVisited = (n \in visited),
                              !.distance = IF n \in reached THEN d ELSE Infinity,
                              !.totalDistance = IF n \in reached THEN d ELSE Infinity,
                              !.previousNode = IF n \in reached THEN s ELSE null]]
  /\ selectedAlgorithm \in AlgorithmType
  /\ k_param = 0
  /\ t_param = 0
  /\ InitDriver

\* The selected strategy called with the grid as it stands, up to its first
\* statements.
callStrategy ==
  /\ pc = "idle"
  /\ iterations' = 0
  /\ Commit(strategyEnter(SearchState))
  /\ Unchanged

DirtyNext ==
  \/ callStrategy
  \/ dijkstraLoop
  \/ astarLoop
  \/ greedyBfsLoop
  \/ bidirectionalSwarmLoop
  \/ bmsspRun

DirtySpec == DirtyInit /\ [][DirtyNext]_vars

----------------------------------------------------------------------------
\* Runs, their animation and the history table.

HistoryMaxCells == 4
MaxHistory == 2

\* The mounted component with nothing saved: every grid of at most
\* HistoryMaxCells cells, any strategy selected, an empty history.
HistoryInit ==
  /\ \E r \in 1..MaxRows, c \in 1..MaxCols :
       /\ r * c >= 2
       /\ r * c <= HistoryMaxCells
       /\ rows = r
       /\ cols = c
       /\ \E s \in Cells(r, c), f \in Cells(r, c) :
            /\ s # f
            /\ startNode = s
            /\ finishNode = f
            /\ \E walls \in SUBSET (Cells(r, c) \ {s, f}) :
                 grid = [n \in Cells(r, c) |->
                           [createNode(n[2], n[1], s, f) EXCEPT !.isWall = (n \in walls)]]
  /\ selectedAlgorithm \in AlgorithmType
  /\ k_param = 0
  /\ t_param = 0
  /\ InitRun
  /\ history = <<>>
  /\ pathfinder_history = <<>>
  /\ historyInClosure = <<>>

\* A step of the run in progress: the strategy, which runs to its return
\* without interruption, or the oracle run and the call of animateAlgorithm.
runStep ==
  \/ dijkstraLoop
  \/ astarLoop
  \/ greedyBfsLoop
  \/ bidirectionalSwarmLoop
  \/ bmsspRun
  \/ runAlgorithmVerify

\* Visualize is followed while the table holds fewer than MaxHistory entries.
HistoryNext ==
  \/ Len(history) < MaxHistory /\ runAlgorithm
  \/ runStep
  \/ animationTimer
  \/ clearHistory

\* The event loop runs every timer that is due; the user's clicks are under
\* no obligation.
HistorySpec == HistoryInit /\ [][HistoryNext]_vars /\ WF_vars(animationTimer)

----------------------------------------------------------------------------
\* Ground truth used by the properties: breadth-first layers over the
\* non-wall 4-adjacent cells.

Adjacent(a, b) ==
  \/ a[1] = b[1] /\ (a[2] = b[2] + 1 \/ b[2] = a[2] + 1)
  \/ a[2] = b[2] /\ (a[1] = b[1] + 1 \/ b[1] = a[1] + 1)

\* Number of steps of a shortest route from the start node to target, -1 if none.
ShortestSteps(target) ==
  LET RECURSIVE layers(_, _, _)
      layers(frontier, seen, d) ==
        IF target \in frontier THEN d
        ELSE LET next == {n \in Nodes \ seen :
                            ~grid[n].isWall /\ \E m \in frontier : Adjacent(m, n)}
             IN IF next = {} THEN -1 ELSE layers(next, seen \cup next, d + 1)
  IN layers({startNode}, {startNode}, 0)

Reachable == ShortestSteps(finishNode) # -1

Walls == {n \in Nodes : grid[n].isWall}

Done == pc = "done"

\* first = start, last = finish, no wall, consecutive nodes 4-adjacent
ContiguousPath(path) ==
  /\ path[1] = startNode
  /\ path[Len(path)] = finishNode
  /\ \A i \in 1..Len(path) : path[i] \in Nodes /\ ~grid[path[i]].isWall
  /\ \A i \in 1..(Len(path) - 1) : Adjacent(path[i], path[i + 1])

Scenario1x2 == rows = 1 /\ cols = 2 /\ Walls = {}

ScenarioCorridor ==
  /\ rows = 1 /\ cols = 5 /\ Walls = {}
  /\ startNode = <<0, 0>> /\ finishNode = <<0, 4>>

----------------------------------------------------------------------------
\* Properties

\* C1: for Dijkstra, A*, Greedy Best-First and BMSSP every non-empty returned
\* path starts with the start node, ends with the finish node, contains no
\* wall and has every two consecutive nodes 4-adjacent.
C1_PathContiguity ==
  (Done /\ selectedAlgorithm \in {"dijkstra", "astar", "greedyBfs", "bmssp"}
        /\ nodesInShortestPathOrder # <<>>)
    => ContiguousPath(nodesInShortestPathOrder)

\* A returned path that had to leave the straight line around a wall.
C1_Witness ==
  /\ Done /\ selectedAlgorithm = "bmssp" /\ Walls # {}
  /\ Len(nodesInShortestPathOrder) > getManhattanDistance(startNode, finishNode) + 1

\* C2: for Bidirectional Swarm every non-empty returned path starts with the
\* start node, ends with the finish node, contains no wall and has every two
\* consecutive nodes 4-adjacent, also when start and finish are adjacent.
C2_SwarmPathContiguity ==
  (Done /\ selectedAlgorithm = "bidirectionalSwarm" /\ nodesInShortestPathOrder # <<>>)
    => ContiguousPath(nodesInShortestPathOrder)

\* C3: Dijkstra returns a path of (shortest number of steps + 1) nodes when
\* the finish is reachable and an empty path otherwise.
C3_DijkstraShortest ==
  (Done /\ selectedAlgorithm = "dijkstra")
    => IF Reachable
       THEN Len(nodesInShortestPathOrder) = ShortestSteps(finishNode) + 1
       ELSE nodesInShortestPathOrder = <<>>

C3_Witness ==
  /\ Done /\ selectedAlgorithm = "dijkstra" /\ Walls # {}
  /\ Len(nodesInShortestPathOrder) > getManhattanDistance(startNode, finishNode) + 1

\* C4: the path A* returns has as many nodes as the path Dijkstra returns on
\* an identical fresh grid, both being empty when there is no route.
C4_AstarOracleAgreement ==
  (Done /\ selectedAlgorithm = "astar")
    => Len(nodesInShortestPathOrder) = Len(groundTruth.nodesInShortestPathOrder)

C4_Witness ==
  /\ Done /\ selectedAlgorithm = "astar" /\ Walls # {}
  /\ Len(nodesInShortestPathOrder) > getManhattanDistance(startNode, finishNode) + 1
  /\ Len(nodesInShortestPathOrder) = Len(groundTruth.nodesInShortestPathOrder)

\* C5: bmssp returns a path with as many nodes as the Dijkstra oracle's
\* whenever the oracle finds one, and an empty path exactly when the oracle does.
C5_BmsspOracleAgreement ==
  (Done /\ selectedAlgorithm = "bmssp")
    => /\ Len(nodesInShortestPathOrder) = Len(groundTruth.nodesInShortestPathOrder)
       /\ (nodesInShortestPathOrder = <<>>) <=> (groundTruth.nodesInShortestPathOrder = <<>>)

C5_Witness ==
  /\ Done /\ selectedAlgorithm = "bmssp" /\ rows = 2 /\ cols = 3
  /\ Walls # {}
  /\ Len(groundTruth.nodesInShortestPathOrder) = 5
  /\ Len(nodesInShortestPathOrder) = 5

ClosedDistancesKept ==
  \A n \in Nodes : grid[n].isVisited => grid'[n].distance = grid[n].distance

\* C7: in Dijkstra, A* and BMSSP, once a node has isVisited = true its
\* distance never changes in a later step of the run.
C7_MonotoneRelaxation ==
  [][(selectedAlgorithm \in {"dijkstra", "astar", "bmssp"}) => ClosedDistancesKept]_vars

\* A relaxation is about to write the distance of a node that is already closed.
C7_Witness ==
  /\ pc = "running" /\ selectedAlgorithm = "bmssp" /\ pending # <<>>
  /\ Head(pending).kind = "relax"
  /\ grid[Head(pending).node].isVisited

\* C8: on the 1x2 grid without walls every strategy returns a path of
\* exactly 2 nodes.
C8_Scenario1x2Path ==
  (Done /\ Scenario1x2) => Len(nodesInShortestPathOrder) = 2

\* C9: on the 1x2 grid without walls every strategy returns at most 2
\* visited nodes.
C9_Scenario1x2Visited ==
  (Done /\ Scenario1x2) => Len(visitedNodesInOrder) <= 2

\* C10: on the 1x5 corridor, start at column 0 and finish at column 4,
\* Dijkstra returns the 5 cells in column order and exactly 5 visited nodes.
C10_Corridor ==
  (Done /\ ScenarioCorridor /\ selectedAlgorithm = "dijkstra")
    => /\ nodesInShortestPathOrder = <<<<0, 0>>, <<0, 1>>, <<0, 2>>, <<0, 3>>, <<0, 4>>>>
       /\ Len(visitedNodesInOrder) = 5

C10_Witness ==
  /\ Done /\ ScenarioCorridor /\ selectedAlgorithm = "dijkstra"
  /\ Len(nodesInShortestPathOrder) = 5

\* Following previousNode from n reaches the start node, whose previousNode
\* is null, within as many steps as the grid has cells.
ChainReachesStart(n) ==
  LET RECURSIVE walk(_, _)
      walk(cur, steps) ==
        IF cur = startNode THEN grid[cur].previousNode = null
        ELSE IF cur = null \/ steps = 0 THEN FALSE
        ELSE walk(grid[cur].previousNode, steps - 1)
  IN walk(n, Cardinality(Nodes))

\* Number of previousNode links from n to the first null link.
ChainLength(n) ==
  LET RECURSIVE walk(_, _)
      walk(cur, k) ==
        IF cur = null \/ k > Cardinality(Nodes) THEN k
        ELSE walk(grid[cur].previousNode, k + 1)
  IN walk(grid[n].previousNode, 0)

\* C12: in Dijkstra, A*, Greedy Best-First and BMSSP, at every point of a run,
\* the previousNode links followed from any node of finite distance reach the
\* start node (previousNode null) within (number of cells) steps: no cycle.
C12_PredecessorChains ==
  (selectedAlgorithm \in {"dijkstra", "astar", "greedyBfs", "bmssp"})
    => \A n \in Nodes : grid[n].distance # Infinity => ChainReachesStart(n)

\* Mid-run, BMSSP holds a node four links away from the start.
C12_Witness ==
  /\ pc = "running" /\ selectedAlgorithm = "bmssp" /\ pending # <<>>
  /\ \E n \in Nodes : grid[n].distance # Infinity /\ ChainLength(n) >= 4

\* C13 as claimed: in every strategy no wall node ever has its distance or
\* previousNode changed from the reset values, and no wall node is ever
\* placed in an open set.
C13_WallsNeverRelaxed ==
  \A n \in Walls :
    /\ grid[n].distance = Infinity
    /\ grid[n].previousNode = null
    /\ ~Includes(openSet, n)
    /\ ~Includes(startOpenSet, n)
    /\ ~Includes(finishOpenSet, n)

\* No wall is closed, recorded, on the path or the predecessor of a node.
WallsNeverTraversed ==
  \A n \in Walls :
    /\ ~grid[n].isVisited
    /\ ~Includes(visitedNodesInOrder, n)
    /\ ~Includes(nodesInShortestPathOrder, n)
    /\ \A m \in Nodes : grid[m].previousNode # n
    /\ \A id \in DOMAIN visitedByStart : visitedByStart[id] # n
    /\ \A id \in DOMAIN visitedByFinish : visitedByFinish[id] # n

\* C13 amended: in every strategy a wall is never traversed (never closed,
\* never in visitedNodesInOrder or the path, never a predecessor); in BMSSP and
\* Bidirectional Swarm a wall is moreover never relaxed nor queued, while
\* Dijkstra, A* and Greedy Best-First may relax and queue a wall neighbour and
\* discard it when it is popped.
C13_WallsNeverTraversed ==
  /\ WallsNeverTraversed
  /\ (selectedAlgorithm \in {"bmssp", "bidirectionalSwarm"}) =>
       /\ C13_WallsNeverRelaxed
       /\ \A n \in Walls : getNodeId(n) \notin
            (DOMAIN gScoreStart) \cup (DOMAIN gScoreFinish) \cup
            (DOMAIN visitedByStart) \cup (DOMAIN visitedByFinish)
       /\ \A i \in 1..Len(pending) : pending[i].node \notin Walls

\* A* holds a relaxed wall in its open set.
C13_Witness ==
  /\ pc = "running" /\ selectedAlgorithm = "astar"
  /\ \E n \in Walls : Includes(openSet, n) /\ grid[n].distance # Infinity

ReparentOnlyOnDecrease ==
  \A n \in Nodes :
    grid'[n].previousNode # grid[n].previousNode => grid'[n].distance < grid[n].distance

ReparentNeverIncreases ==
  \A n \in Nodes :
    grid'[n].previousNode # grid[n].previousNode =>
      \/ grid'[n].distance < grid[n].distance
      \/ /\ selectedAlgorithm = "bmssp"
         /\ grid'[n].distance = grid[n].distance

\* C14 as claimed: in Dijkstra, A*, Greedy Best-First and BMSSP a node's
\* previousNode is assigned or changed only in a step that strictly
\* decreases that node's distance.
C14_ReparentStrict ==
  [][(selectedAlgorithm \in {"dijkstra", "astar", "greedyBfs", "bmssp"})
       => ReparentOnlyOnDecrease]_vars

\* C14 amended: a node's previousNode is assigned or changed only in a step
\* that strictly decreases its distance in Dijkstra, A* and Greedy
\* Best-First; in BMSSP, whose relaxation check is <=, also in a step that
\* leaves its distance the same.
C14_ReparentNonIncreasing ==
  [][(selectedAlgorithm \in {"dijkstra", "astar", "greedyBfs", "bmssp"})
       => ReparentNeverIncreases]_vars

\* BMSSP is about to give a node another predecessor at the same distance.
C14_Witness ==
  /\ pc = "running" /\ selectedAlgorithm = "bmssp" /\ pending # <<>>
  /\ Head(pending).kind = "relax"
  /\ Head(pending).distance = grid[Head(pending).node].distance
  /\ Head(pending).previousNode # grid[Head(pending).node].previousNode

DistancesNeverGrow ==
  \A n \in Nodes : grid'[n].distance <= grid[n].distance

\* C17: during a run of Dijkstra, A*, Greedy Best-First or BMSSP no step
\* assigns a node a distance larger than the one it holds.
C17_DistanceNonIncreasing ==
  [][(pc = "running" /\ selectedAlgorithm \in {"dijkstra", "astar", "greedyBfs", "bmssp"})
       => DistancesNeverGrow]_vars

\* BMSSP is about to write a distance that is already finite (the boundary
\* case of its <= check).
C17_Witness ==
  /\ pc = "running" /\ selectedAlgorithm = "bmssp" /\ pending # <<>>
  /\ Head(pending).kind = "relax"
  /\ grid[Head(pending).node].distance # Infinity
  /\ Head(pending).distance <= grid[Head(pending).node].distance
  /\ ~grid[Head(pending).node].isVisited

\* Grid dimensions and every node's row, col, isWall, isStart and isFinish
\* are the same after the step as before it.
IdentityKept ==
  /\ rows' = rows
  /\ cols' = cols
  /\ DOMAIN grid' = DOMAIN grid
  /\ \A n \in Nodes :
       /\ grid'[n].row = grid[n].row
       /\ grid'[n].col = grid[n].col
       /\ grid'[n].isWall = grid[n].isWall
       /\ grid'[n].isStart = grid[n].isStart
       /\ grid'[n].isFinish = grid[n].isFinish

ResultNodesInGrid ==
  /\ \A i \in 1..Len(visitedNodesInOrder) : visitedNodesInOrder[i] \in Nodes
  /\ \A i \in 1..Len(nodesInShortestPathOrder) : nodesInShortestPathOrder[i] \in Nodes

\* C18: no strategy changes the grid's shape or identity data: every step of
\* a run keeps the dimensions and each node's row, col, isWall, isStart and
\* isFinish, and every node of visitedNodesInOrder and of the path is a node
\* of the grid.
C18_FrameEffect ==
  [][IdentityKept /\ ResultNodesInGrid']_vars

\* A finished run on a grid with walls that closed nodes and returned a path.
C18_Witness ==
  /\ Done /\ selectedAlgorithm = "bidirectionalSwarm" /\ Walls # {}
  /\ Len(nodesInShortestPathOrder) >= 4
  /\ \E n \in Nodes : grid[n].isVisited /\ ~grid[n].isStart /\ ~grid[n].isFinish

\* The loop iterations a run may make: four per pair of cells.
StepLimit == 4 * Cardinality(Nodes) * Cardinality(Nodes)

\* C15: every strategy terminates on every grid meeting the preconditions:
\* a run makes at most StepLimit loop iterations (BMSSP: writes of its
\* recursion and pull loop) and has reached its return by then, for
\* reachable and unreachable finish alike.
C15_Termination ==
  /\ iterations <= StepLimit
  /\ (iterations = StepLimit) => (pc = "done")

\* A run that returned after exhausting its frontier without reaching the finish.
C15_Witness ==
  /\ Done /\ selectedAlgorithm = "bmssp" /\ ~Reachable
  /\ Len(visitedNodesInOrder) >= 3

\* C11: after any sequence of editor events exactly one node has isStart,
\* exactly one has isFinish, they are different nodes and neither is a wall.
C11_StartFinishInvariant ==
  /\ Cardinality({n \in Nodes : grid[n].isStart}) = 1
  /\ Cardinality({n \in Nodes : grid[n].isFinish}) = 1
  /\ \A n \in Nodes : ~(grid[n].isStart /\ grid[n].isFinish)
  /\ \A n \in Nodes : (grid[n].isStart \/ grid[n].isFinish) => ~grid[n].isWall

\* C19: while isVisualizing is true, mouse down, mouse enter, Random Maze,
\* Clear Board, Clear Path and Visualize change neither the walls, the start
\* and finish positions nor anything else of the grid, and start no second
\* run: every step taken from a state where the visualization is on and the
\* strategy has returned leaves grid, positions, dimensions and the run's
\* results as they are.
C19_IgnoredWhileVisualizing ==
  [][(isVisualizing /\ pc = "done") =>
       /\ grid' = grid
       /\ startNode' = startNode
       /\ finishNode' = finishNode
       /\ rows' = rows
       /\ cols' = cols
       /\ pc' = "done"
       /\ iterations' = iterations
       /\ visitedNodesInOrder' = visitedNodesInOrder
       /\ nodesInShortestPathOrder' = nodesInShortestPathOrder]_vars

\* Mid-animation with the mouse held down in wall-drawing mode: the state in
\* which an unguarded mouse enter would toggle a wall.
C19_Witness ==
  /\ isVisualizing /\ pc = "done" /\ animated >= 1
  /\ isMousePressed /\ draggingState = "wall"
  /\ Walls # {}

\* One iteration of the selected strategy's loop.
strategyStep(s) ==
  CASE selectedAlgorithm = "dijkstra" -> dijkstraIteration(s)
    [] selectedAlgorithm = "astar" -> astarIteration(s)
    [] selectedAlgorithm = "greedyBfs" -> greedyBfsIteration(s)
    [] selectedAlgorithm = "bidirectionalSwarm" -> bidirectionalSwarmIteration(s)
    [] selectedAlgorithm = "bmssp" -> bmsspStep(s)

\* The selected strategy run from its entry to its return.
RECURSIVE runToReturn(_)
runToReturn(s) ==
  IF s.pc = "done" THEN s ELSE runToReturn(strategyStep(s))

\* A first invocation: a newly created grid with the present walls, start
\* and finish, and nothing left over from any earlier run.
freshState ==
  [cleanState EXCEPT
     !.grid = [n \in Nodes |->
                 [createNode(n[2], n[1], startNode, finishNode)
                    EXCEPT !.isWall = grid[n].isWall]],
     !.visitedNodesInOrder = <<>>, !.k_param = 0, !.t_param = 0, !.pc = "idle"]

\* C16: a run's result does not depend on what earlier runs left behind:
\* whenever a run started from the editor has returned (after any earlier
\* runs, edits, mazes and clears, and with any k_param, t_param and
\* visitedNodesInOrder left in bmssp's module), its visitedNodesInOrder, its
\* path and the search fields of every node equal those of a first run of
\* the same strategy on a new grid with the same walls, start and finish.
C16_Deterministic ==
  (isVisualizing /\ pc = "done") =>
    /\ visitedNodesInOrder = runToReturn(strategyEnter(freshState)).visitedNodesInOrder
    /\ nodesInShortestPathOrder =
         runToReturn(strategyEnter(freshState)).nodesInShortestPathOrder
    /\ grid = runToReturn(strategyEnter(freshState)).grid

\* A Dijkstra run that found a path on a grid with a wall, returned while
\* bmssp's module variables hold what an earlier bmssp run on this grid wrote.
C16_Witness ==
  /\ isVisualizing /\ pc = "done" /\ selectedAlgorithm = "dijkstra"
  /\ k_param = 2 /\ t_param = 2
  /\ Walls # {} /\ nodesInShortestPathOrder # <<>>

\* C20: for every input grid and every random outcome generateRandomMaze
\* returns a grid of the same dimensions in which the start and finish nodes
\* are not walls (walls on them in the input included), every cell has
\* distance Infinity, isVisited false and previousNode null, and isStart,
\* isFinish, row and col are where the input has them; the input grid's
\* nodes are not changed by the call.
C20_MazeResult ==
  [][(newGrid = <<>> /\ newGrid' # <<>>) =>
       /\ DOMAIN newGrid' = DOMAIN grid
       /\ \A n \in DOMAIN grid :
            /\ (grid[n].isStart \/ grid[n].isFinish) => ~newGrid'[n].isWall
            /\ newGrid'[n].distance = Infinity
            /\ ~newGrid'[n].isVisited
            /\ newGrid'[n].previousNode = null
            /\ newGrid'[n].isStart = grid[n].isStart
            /\ newGrid'[n].isFinish = grid[n].isFinish
            /\ newGrid'[n].row = grid[n].row
            /\ newGrid'[n].col = grid[n].col
       /\ grid' = grid]_vars

\* A returned maze with a wall, made from an input whose start node was a
\* wall and carried an earlier run's values, for which a wall was drawn.
C20_Witness ==
  /\ newGrid # <<>>
  /\ grid[startNode].isWall /\ grid[startNode].isVisited
  /\ grid[startNode].distance # Infinity
  /\ \E n \in Nodes : newGrid[n].isWall /\ ~grid[n].isWall

\* C21: the driver's oracle run is independent and faithful.  The step that
\* runs it leaves the strategy's grid and result as they are; the oracle's
\* grid has the walls, start and finish of the strategy's grid and none of
\* its search values; its path has the true shortest number of nodes (none
\* when the finish is unreachable); the run is recorded as optimal exactly
\* when the strategy's path has as many nodes as the oracle's; and every
\* Dijkstra and every A* run is recorded as optimal.
C21_OracleVerdict ==
  [][(shortestPathFound = "unset" /\ shortestPathFound' # "unset") =>
       /\ grid' = grid
       /\ visitedNodesInOrder' = visitedNodesInOrder
       /\ nodesInShortestPathOrder' = nodesInShortestPathOrder
       /\ \A n \in Nodes :
            /\ verifyGrid[n].isWall = grid[n].isWall
            /\ verifyGrid[n].isStart = (n = startNode)
            /\ verifyGrid[n].isFinish = (n = finishNode)
            /\ verifyGrid[n].distance = Infinity
            /\ ~verifyGrid[n].isVisited
       /\ Len(groundTruth.nodesInShortestPathOrder) =
            (IF Reachable THEN ShortestSteps(finishNode) + 1 ELSE 0)
       /\ (shortestPathFound' = "true") <=>
            (Len(nodesInShortestPathOrder) = Len(groundTruth.nodesInShortestPathOrder))
       /\ selectedAlgorithm \in {"dijkstra", "astar"} => shortestPathFound' = "true"]_vars

\* A Bidirectional Swarm run whose path has more nodes than the oracle's,
\* recorded as not optimal, on a grid with walls.
C21_Witness ==
  /\ shortestPathFound = "false" /\ selectedAlgorithm = "bidirectionalSwarm"
  /\ Reachable /\ Walls # {}
  /\ Len(nodesInShortestPathOrder) > ShortestSteps(finishNode) + 1

\* C22: closed means confirmed.  In Dijkstra, A* and BMSSP, in the step that
\* marks a node isVisited its distance is the true shortest number of steps
\* from the start to it over non-wall 4-adjacent cells.
C22_ClosedMeansConfirmed ==
  [][(selectedAlgorithm \in {"dijkstra", "astar", "bmssp"}) =>
       \A n \in Nodes :
         (~grid[n].isVisited /\ grid'[n].isVisited) =>
           grid'[n].distance = ShortestSteps(n)]_vars

\* A BMSSP run on a grid with walls, under way, that has closed a node three
\* or more steps from the start while another reachable node is still open.
C22_Witness ==
  /\ pc = "running" /\ selectedAlgorithm = "bmssp" /\ Walls # {}
  /\ \E n \in Nodes : grid[n].isVisited /\ grid[n].distance >= 3
  /\ \E n \in Nodes : ~grid[n].isVisited /\ ShortestSteps(n) > 0

\* C23: whenever a path exists, the path Bidirectional Swarm stitches at the
\* meeting node has as many nodes as the Dijkstra oracle's shortest path,
\* for every wall configuration and every start and finish placement.
C23_SwarmOptimalCount ==
  (Done /\ selectedAlgorithm = "bidirectionalSwarm" /\ Reachable) =>
    Len(nodesInShortestPathOrder) = Len(groundTruth.nodesInShortestPathOrder)

\* C24: after bmssp returns, every cell reachable from the start over
\* non-wall 4-adjacent cells has its true shortest step count as distance
\* and isVisited = true, and every unreachable cell and every wall has
\* distance Infinity and isVisited = false.
C24_BmsspFullDistances ==
  (Done /\ selectedAlgorithm = "bmssp") =>
    \A n \in Nodes :
      IF ~grid[n].isWall /\ ShortestSteps(n) # -1
        THEN grid[n].distance = ShortestSteps(n) /\ grid[n].isVisited
        ELSE grid[n].distance = Infinity /\ ~grid[n].isVisited

\* A returned BMSSP run on a grid with walls where a non-wall cell is out of
\* reach and a cell farther from the start than the finish has been closed.
C24_Witness ==
  /\ Done /\ selectedAlgorithm = "bmssp" /\ Walls # {} /\ Reachable
  /\ \E n \in Nodes : ~grid[n].isWall /\ ShortestSteps(n) = -1
  /\ \E n \in Nodes : ShortestSteps(n) > ShortestSteps(finishNode) /\ grid[n].isVisited

DijkstraRunning == pc = "running" /\ selectedAlgorithm = "dijkstra"

NoDuplicates(seq) == \A i, j \in 1..Len(seq) : seq[i] = seq[j] => i = j

\* The open set holds no node twice and only nodes of finite distance, and
\* visitedNodesInOrder is without repetition and in non-decreasing distance.
DijkstraOpenSetOrdered ==
  /\ NoDuplicates(openSet)
  /\ \A i \in 1..Len(openSet) : grid[openSet[i]].distance < Infinity
  /\ NoDuplicates(visitedNodesInOrder)
  /\ \A i, j \in 1..Len(visitedNodesInOrder) :
       i < j => grid[visitedNodesInOrder[i]].distance <= grid[visitedNodesInOrder[j]].distance

\* One loop iteration: the array is in insertion order and already sorted,
\* so that the node popped is its first element, of minimum distance and the
\* first to have entered among those; a node enters only when its distance
\* is still Infinity, hence once.
DijkstraPopsFirstMinimum ==
  /\ sortNodesByDistance(grid, openSet) = openSet
  /\ \A i \in 1..Len(openSet) : grid[Head(openSet)].distance <= grid[openSet[i]].distance
  /\ Len(openSet') >= Len(openSet) - 1
  /\ SubSeq(openSet', 1, Len(openSet) - 1) = Tail(openSet)
  /\ \A n \in Nodes :
       (~Includes(openSet, n) /\ Includes(openSet', n)) => grid[n].distance = Infinity

\* C25: Dijkstra always pops a node of minimum distance among the open set,
\* ties going to the node that entered the open set first; nodes appear in
\* visitedNodesInOrder with non-decreasing distance; each node is popped at
\* most once; every node in the open set has a finite distance, so that the
\* infinite-distance exit is never taken.
C25_DijkstraPopOrder ==
  /\ [](selectedAlgorithm = "dijkstra" => DijkstraOpenSetOrdered)
  /\ [][(DijkstraRunning /\ openSet # <<>>) => DijkstraPopsFirstMinimum]_vars

\* A Dijkstra run under way whose open set holds a wall and two nodes of
\* equal distance, after two nodes have been closed.
C25_Witness ==
  /\ DijkstraRunning /\ Len(visitedNodesInOrder) >= 2
  /\ \E i \in 1..Len(openSet) : grid[openSet[i]].isWall
  /\ \E i, j \in 1..Len(openSet) :
       i < j /\ grid[openSet[i]].distance = grid[openSet[j]].distance

AstarRunning == pc = "running" /\ selectedAlgorithm = "astar"

\* nodeA is not after nodeB in the order (totalDistance, then heuristicDistance).
AstarNotAfter(nodeA, nodeB) ==
  \/ grid[nodeA].totalDistance < grid[nodeB].totalDistance
  \/ /\ grid[nodeA].totalDistance = grid[nodeB].totalDistance
     /\ grid[nodeA].heuristicDistance <= grid[nodeB].heuristicDistance

\* C26: A* always pops from its open set a node that is minimal under the
\* order (totalDistance ascending, then heuristicDistance ascending), and
\* every node in the open set has totalDistance = distance + Manhattan
\* distance to the finish.
C26_AstarPopOrder ==
  /\ [](AstarRunning =>
          \A i \in 1..Len(openSet) :
            grid[openSet[i]].totalDistance =
              grid[openSet[i]].distance + getManhattanDistance(openSet[i], finishNode))
  /\ [][(AstarRunning /\ openSet # <<>>) =>
          \A n \in Nodes :
            (Includes(openSet, n) /\ ~Includes(openSet', n)) =>
              \A i \in 1..Len(openSet) : AstarNotAfter(n, openSet[i])]_vars

\* An A* run under way whose open set holds two nodes of equal totalDistance
\* and different heuristicDistance, the array's first not being the smaller.
C26_Witness ==
  /\ AstarRunning /\ Walls # {}
  /\ \E i, j \in 1..Len(openSet) :
       /\ i < j
       /\ grid[openSet[i]].totalDistance = grid[openSet[j]].totalDistance
       /\ grid[openSet[i]].heuristicDistance > grid[openSet[j]].heuristicDistance
       /\ \A m \in 1..Len(openSet) :
            grid[openSet[j]].totalDistance <= grid[openSet[m]].totalDistance

GreedyRunning == pc = "running" /\ selectedAlgorithm = "greedyBfs"

\* C27: in Greedy Best-First a node's distance and previousNode are assigned
\* only while its distance is still Infinity, hence at most once per run, and
\* never change afterwards; a node is pushed to the open set only in that
\* assignment, hence at most once, and the open set holds no node twice.
C27_GreedyAssignsOnce ==
  /\ [](selectedAlgorithm = "greedyBfs" => NoDuplicates(openSet))
  /\ [][GreedyRunning =>
          \A n \in Nodes :
            /\ (grid'[n].distance # grid[n].distance
                  \/ grid'[n].previousNode # grid[n].previousNode)
                 => (grid[n].distance = Infinity /\ grid'[n].distance # Infinity)
            /\ (~Includes(openSet, n) /\ Includes(openSet', n))
                 => grid[n].distance = Infinity]_vars

\* A Greedy Best-First run under way in which a node that was assigned its
\* distance and is not yet closed neighbours a closed node, other than its
\* predecessor, through which it would get a distance not larger.
C27_Witness ==
  /\ GreedyRunning /\ visitedNodesInOrder # <<>>
  /\ \E n \in Nodes :
       /\ ~grid[n].isVisited /\ grid[n].distance # Infinity
       /\ \E m \in Nodes :
            /\ Adjacent(m, n) /\ grid[m].isVisited
            /\ m # grid[n].previousNode
            /\ grid[m].distance + 1 <= grid[n].distance

SwarmRunning == pc = "running" /\ selectedAlgorithm = "bidirectionalSwarm"

\* distance, totalDistance, heuristicDistance and previousNode of every node
\* are as resetVisuals left them.
SwarmGridFieldsReset ==
  \A n \in Nodes :
    /\ grid[n].distance = Infinity
    /\ grid[n].totalDistance = Infinity
    /\ grid[n].heuristicDistance = Infinity
    /\ grid[n].previousNode = null

\* The start-side expansion of the next loop pass leaves the finish side's
\* maps and open set alone, and the finish-side expansion that follows it
\* leaves the start side's.
SwarmSidesSeparate ==
  /\ FinishSide(swarmStartSide(SearchState)) = FinishSide(SearchState)
  /\ swarmStartSide(SearchState).pc # "done" =>
       StartSide(swarmExpandFinish(swarmStartSide(SearchState))) =
         StartSide(swarmStartSide(SearchState))

\* C28: Bidirectional Swarm keeps the frontiers' costs and predecessors in
\* its own maps: a run writes no node's distance, totalDistance,
\* heuristicDistance or previousNode (of the grid's fields a step changes
\* isVisited only), and neither side's expansion writes the other side's maps.
C28_SwarmOwnMaps ==
  /\ [](selectedAlgorithm = "bidirectionalSwarm" => SwarmGridFieldsReset)
  /\ []((SwarmRunning /\ startOpenSet # <<>> /\ finishOpenSet # <<>>) => SwarmSidesSeparate)
  /\ [][SwarmRunning =>
          \A n \in Nodes : grid'[n] = [grid[n] EXCEPT !.isVisited = grid'[n].isVisited]]_vars

\* A Bidirectional Swarm run under way on a grid with walls in which each
\* side has recorded a cost for a node the other side has none for.
C28_Witness ==
  /\ SwarmRunning /\ Walls # {}
  /\ \E n \in Nodes : /\ n # startNode
                      /\ MapHas(gScoreStart, getNodeId(n))
                      /\ ~MapHas(gScoreFinish, getNodeId(n))
  /\ \E n \in Nodes : /\ n # finishNode
                      /\ MapHas(gScoreFinish, getNodeId(n))
                      /\ ~MapHas(gScoreStart, getNodeId(n))
  /\ \E n \in Nodes : grid[n].isVisited

----------------------------------------------------------------------------
\* Properties of StructureD, under StructureDSpec.

DSorted(items) ==
  \A i, j \in 1..Len(items) : i < j => items[i].val <= items[j].val

DOneEntryPerNode(items) ==
  \A i, j \in 1..Len(items) : items[i].node = items[j].node => i = j

DHas(items, node) == \E i \in 1..Len(items) : items[i].node = node

\* The values the entries of a node carry.
DValuesOf(items, node) == {items[i].val : i \in {j \in 1..Len(items) : items[j].node = node}}

\* C29: after any sequence of insert, pull and batchPrepend calls the
\* entries are sorted by value in ascending order and each node has at most
\* one entry; an insert for a node already present leaves the node with the
\* smaller of its old value and the new one, and changes nothing when the
\* new value is not smaller than the old one.
C29_StructureDInvariant ==
  /\ DSorted(structureD.items)
  /\ DOneEntryPerNode(structureD.items)
  /\ (lastCall.op = "insert" /\ DHas(lastCall.before, lastCall.node)) =>
       \A old \in DValuesOf(lastCall.before, lastCall.node) :
         /\ DValuesOf(structureD.items, lastCall.node) = {Min(old, lastCall.val)}
         /\ (lastCall.val >= old) => (structureD.items = lastCall.before)

\* An insert with a smaller value for a node that sat last among three
\* entries has moved the node to the front.
C29_Witness ==
  /\ lastCall.op = "insert"
  /\ Len(lastCall.before) = 3
  /\ lastCall.before[3].node = lastCall.node
  /\ lastCall.val < lastCall.before[3].val
  /\ structureD.items[1].node = lastCall.node

----------------------------------------------------------------------------
\* Properties of the BMSSP trace and of the calls of a run.

\* The count of a node in a sequence of nodes.
Occurrences(seq, n) == Cardinality({i \in 1..Len(seq) : seq[i] = n})

\* C34: in BMSSP's visitation trace no step appends a node that already
\* has isVisited = true: a relaxation in findPivots, baseCase or
\* bmsspRecursive appends a node only while it is not yet finalized.
C34_NoAppendAfterFinalized ==
  [][(selectedAlgorithm = "bmssp" /\ pc = "running") =>
       \A n \in Nodes :
         (grid[n].isVisited) =>
           Occurrences(visitedNodesInOrder', n) = Occurrences(visitedNodesInOrder, n)]_vars

\* bmsspRecursive is about to relax a node that is already finalized and in
\* visitedNodesInOrder, without appending it.
C34_Witness ==
  /\ pc = "running" /\ selectedAlgorithm = "bmssp" /\ pending # <<>>
  /\ Head(pending).kind = "relax"
  /\ Head(pending).where = "bmsspRecursive"
  /\ ~Head(pending).push
  /\ Occurrences(visitedNodesInOrder, Head(pending).node) >= 1
  /\ grid[Head(pending).node].isVisited

BmsspRunning == pc = "running" /\ selectedAlgorithm = "bmssp"

CallsOf(kind) == {i \in 1..Len(calls) : calls[i].kind = kind}

\* C31: every batchPrepend call made by bmsspRecursive passes entries whose
\* values lie in [B'_i, Bi), while every value D holds at the time of the
\* call is at least Bi: every entry passed is strictly smaller than every
\* value held in D.
C31_BatchPrependAssumption ==
  \A i \in CallsOf("batchPrepend") :
    /\ \A j \in 1..Len(calls[i].list) :
         /\ calls[i].list[j].val >= calls[i].B_prime_i
         /\ calls[i].list[j].val < calls[i].Bi
         /\ \A h \in 1..Len(calls[i].items) : calls[i].list[j].val < calls[i].items[h].val
    /\ \A h \in 1..Len(calls[i].items) : calls[i].items[h].val >= calls[i].Bi

\* A run with a batchPrepend call that passes two entries, and with one
\* made while D holds an entry.
C31_Witness ==
  /\ BmsspRunning
  /\ \E i \in CallsOf("batchPrepend") :
       Len(calls[i].list) >= 2 /\ calls[i].B_prime_i < calls[i].Bi
  /\ \E i \in CallsOf("batchPrepend") : Len(calls[i].items) >= 1

\* C32: for every invocation of baseCase(B, S) and bmsspRecursive(level, B, S)
\* of a bmssp run the returned boundary is <= B, and every node of the
\* returned U has a distance strictly below B and strictly below the
\* returned boundary.
C32_BoundIsCeiling ==
  \A i \in CallsOf("baseCase") \cup CallsOf("bmsspRecursive") :
    /\ calls[i].boundary <= calls[i].B
    /\ \A j \in 1..Len(calls[i].dist) :
         /\ calls[i].dist[j] < calls[i].B
         /\ calls[i].dist[j] < calls[i].boundary

\* The part of C32 about the boundary alone.
C32_BoundaryAtMostB ==
  \A i \in CallsOf("baseCase") \cup CallsOf("bmsspRecursive") :
    calls[i].boundary <= calls[i].B

HeapStrategies == {"dijkstra", "astar", "greedyBfs", "bidirectionalSwarm"}

InOrder(seq, n) == \E i \in 1..Len(seq) : seq[i] = n

\* C35: in a run of Dijkstra, A*, Greedy Best-First or Bidirectional Swarm
\* visitedNodesInOrder never holds a node twice and never holds a wall, and
\* when the run has ended a node is in visitedNodesInOrder exactly when its
\* isVisited is true.
C35_VisitedOrderMatchesFlags ==
  (selectedAlgorithm \in HeapStrategies /\ pc \in {"running", "done"}) =>
    /\ NoDuplicates(visitedNodesInOrder)
    /\ \A i \in 1..Len(visitedNodesInOrder) : ~grid[visitedNodesInOrder[i]].isWall
    /\ pc = "done" =>
         \A n \in Nodes : InOrder(visitedNodesInOrder, n) <=> grid[n].isVisited

\* A finished Bidirectional Swarm run, both sides of which closed nodes, on a
\* grid with a wall and with a free cell the run never closed.
C35_Witness ==
  /\ selectedAlgorithm = "bidirectionalSwarm"
  /\ pc = "done"
  /\ Len(visitedNodesInOrder) >= 3
  /\ \E n \in Nodes : grid[n].isWall
  /\ \E n \in Nodes : ~grid[n].isWall /\ ~grid[n].isVisited

\* C36: bmssp resets the search state itself: for fixed walls, start and
\* finish, the visitedNodesInOrder and the path it returns are those of a
\* call on a newly created grid, whatever distance, isVisited and
\* previousNode the grid's nodes hold at the call.
C36_BmsspResetsItself ==
  (selectedAlgorithm = "bmssp" /\ pc = "done") =>
    /\ visitedNodesInOrder = runToReturn(strategyEnter(freshState)).visitedNodesInOrder
    /\ nodesInShortestPathOrder =
         runToReturn(strategyEnter(freshState)).nodesInShortestPathOrder

\* The same statement for the strategies that have no reset of their own.
C36_OthersResetThemselves ==
  (selectedAlgorithm # "bmssp" /\ pc = "done") =>
    /\ visitedNodesInOrder = runToReturn(strategyEnter(freshState)).visitedNodesInOrder
    /\ nodesInShortestPathOrder =
         runToReturn(strategyEnter(freshState)).nodesInShortestPathOrder

\* A bmssp call that has returned a path over a cell which an earlier run
\* had left visited and reached (its totalDistance, which bmssp does not
\* touch, still shows it).
C36_Witness ==
  /\ selectedAlgorithm = "bmssp"
  /\ pc = "done"
  /\ Len(nodesInShortestPathOrder) >= 3
  /\ \E i \in 1..Len(nodesInShortestPathOrder) :
       grid[nodesInShortestPathOrder[i]].totalDistance # Infinity

\* An animation timer runs in this step, and it is the p-th of timers.
TimerRuns(p) ==
  /\ animated' # animated
  /\ p \in 1..Len(timers)
  /\ Len(timers') >= Len(timers) - 1
  /\ SubSeq(timers', 1, Len(timers) - 1) = RemoveAt(timers, p - 1)

\* The animation step that is due after `animated` steps of the run have
\* fired: the visited cells in order, the hand-over, the path cells in
\* order, the final step.
StepDue ==
  LET v == Len(visitedNodesInOrder)
  IN IF animated < v THEN [kind |-> "visited", i |-> animated]
     ELSE IF animated = v THEN [kind |-> "animateShortestPath", i |-> v]
     ELSE IF animated - v - 1 < Len(nodesInShortestPathOrder)
          THEN [kind |-> "path", i |-> animated - v - 1]
          ELSE [kind |-> "final", i |-> Len(nodesInShortestPathOrder)]

\* history' holds exactly one entry that history does not hold, first, and
\* it describes the run that ends.
OneEntryAdded ==
  /\ history' # <<>>
  /\ Occurrences(history', history'[1]) = 1
  /\ ~InOrder(history, history'[1])
  /\ history'[1].algorithm = formatAlgorithmName(selectedAlgorithm)
  /\ history'[1].visitedNodes = Len(visitedNodesInOrder)
  /\ history'[1].shortestPathLength = Len(nodesInShortestPathOrder)
  /\ \A i \in 2..Len(history') : history'[i].id # history'[1].id

\* runAlgorithm has called animateAlgorithm and the run's final timer has
\* not run yet.
Animating == isVisualizing /\ pc = "done" /\ shortestPathFound # "unset"

\* C37: every run started by Visualize completes: the strategy and the
\* oracle run return within StepLimit steps of the handler; from the call of
\* animateAlgorithm on the animation steps fire one at a time, the visited
\* cells in visitedNodesInOrder order, then the path cells in path order,
\* none of them touching the history; the step after them sets isVisualizing
\* to false and adds exactly one history entry for the run, also when the
\* path is empty; and an animation under way always reaches that step.
C37_RunCompletes ==
  /\ Animating ~> ~isVisualizing
  /\ [](isVisualizing => (iterations <= StepLimit /\ (iterations = StepLimit => pc = "done")))
  /\ [][animated' # animated =>
          \E p \in 1..Len(timers) :
            /\ TimerRuns(p)
            /\ timers[p].kind = StepDue.kind
            /\ timers[p].i = StepDue.i
            /\ IF StepDue.kind = "final"
               THEN ~isVisualizing' /\ timers' = <<>> /\ OneEntryAdded
               ELSE isVisualizing' /\ history' = history]_vars
  /\ [][(isVisualizing /\ ~isVisualizing') =>
          (timers # <<>> /\ animated = Len(visitedNodesInOrder) +
                                       Len(nodesInShortestPathOrder) + 1)]_vars

\* A second run, which found no path, has completed and its entry heads the
\* history.
C37_Witness ==
  /\ ~isVisualizing
  /\ timers = <<>>
  /\ Len(history) = 2
  /\ history[1].shortestPathLength = 0
  /\ history[1].visitedNodes >= 1

\* C38: when a run's final timer adds its entry, the resulting history, and
\* the persisted copy, is that entry prepended to the history as it stands
\* at that moment.
C38_PrependsToCurrentHistory ==
  [][(isVisualizing /\ ~isVisualizing') =>
       /\ history' = <<history'[1]>> \o history
       /\ pathfinder_history' = history']_vars

\* Every element's dist is at least its parent's.
HeapOrdered(e) == \A i \in 2..Len(e) : e[i].dist >= e[i \div 2].dist

\* a and b hold the same elements, each as often.
SameElements(a, b) ==
  /\ Len(a) = Len(b)
  /\ \A i \in 1..Len(a) : Occurrences(a, a[i]) = Occurrences(b, a[i])

\* C39: after any sequence of push, pop and decreaseKey every element's dist
\* is at least its parent's; pop returns undefined on an empty heap and
\* otherwise removes and returns an element of minimal dist; decreaseKey
\* changes a dist only to a strictly smaller one, that of the first element
\* holding the node.
C39_MinHeapInvariant ==
  /\ HeapOrdered(minHeap)
  /\ lastCall.op = "pop" =>
       IF lastCall.before = <<>>
       THEN lastCall.items = <<>> /\ minHeap = <<>>
       ELSE /\ Len(lastCall.items) = 1
            /\ \A i \in 1..Len(lastCall.before) :
                 lastCall.before[i].dist >= lastCall.items[1].dist
            /\ SameElements(minHeap \o lastCall.items, lastCall.before)
  /\ lastCall.op = "decreaseKey" =>
       \/ minHeap = lastCall.before
       \/ \E i \in 1..Len(lastCall.before) :
            /\ lastCall.before[i].node = lastCall.node
            /\ lastCall.val < lastCall.before[i].dist
            /\ SameElements(minHeap,
                            Put(lastCall.before, i - 1,
                                [node |-> lastCall.node, dist |-> lastCall.val]))
  /\ (lastCall.op = "decreaseKey" /\ minHeap = lastCall.before) =>
       \A i \in 1..Len(lastCall.before) :
         (lastCall.before[i].node = lastCall.node /\
          \A j \in 1..(i - 1) : lastCall.before[j].node # lastCall.node)
           => lastCall.val >= lastCall.before[i].dist

\* A pop from a heap of four elements after which the element moved to the
\* root was bubbled down below a smaller child.
C39_Witness ==
  /\ lastCall.op = "pop"
  /\ Len(lastCall.before) = 4
  /\ minHeap[1] # lastCall.before[4]
  /\ minHeap[1].dist > lastCall.items[1].dist

============================================================================
